---- MODULE Spec2Model ----
(***************************************************************************)
(* ATLAS multi-agent academic assistant (src/ATLAS/Extras/app.py):         *)
(* the coordinator and its narrative parser, the AgentExecutor, and the    *)
(* top-level LangGraph workflow built by create_agents_graph.              *)
(*                                                                         *)
(* Python values are encoded as follows.                                   *)
(*   str    a sequence of one-character strings, so that `in`, lower()     *)
(*          and == are computed character by character;                    *)
(*   None   the one-element sequence <<"None">> (not a str: its element    *)
(*          is not a character);                                           *)
(*   dict   [dict |-> f] with f a function from keys to values;            *)
(*   other  [leaf |-> x] for a list, number or string stored in a dict.    *)
(***************************************************************************)
EXTENDS Integers, Sequences, FiniteSets, TLC

\* ------------------------------------------------------------------------
\* Bounds of the model
\* ------------------------------------------------------------------------

\* longest oracle narrative, in words, that the coordinator is checked on
MaxWords == 4

\* ------------------------------------------------------------------------
\* Strings
\* ------------------------------------------------------------------------

UpperChars == <<"A","B","C","D","E","F","G","H","I","J","K","L","M","N","O","P","Q","R","S","T","U","V","W","X","Y","Z">>

LowerChars == <<"a","b","c","d","e","f","g","h","i","j","k","l","m","n","o","p","q","r","s","t","u","v","w","x","y","z">>

\* str.lower() on one character
LowerChar(c) ==
    IF \E i \in 1..Len(UpperChars) : UpperChars[i] = c
    THEN LowerChars[CHOOSE i \in 1..Len(UpperChars) : UpperChars[i] = c]
    ELSE c

\* str.lower()
Lower(s) == [i \in 1..Len(s) |-> LowerChar(s[i])]

\* the Python test `needle in hay` on two strings
Contains(hay, needle) ==
    \E i \in 1..(Len(hay) - Len(needle) + 1) :
        SubSeq(hay, i, i + Len(needle) - 1) = needle

\* any(keyword in s for keyword in keywords)
ContainsAny(s, keywords) == \E k \in keywords : Contains(s, k)

None == <<"None">>

\* words the oracle's narrative is made of
W_Thought == <<"T","h","o","u","g","h","t",":">>

W_Decision == <<"D","e","c","i","s","i","o","n",":">>

W_Action == <<"A","c","t","i","o","n",":">>

W_NoteWriter == <<"N","o","t","e","W","r","i","t","e","r">>

W_ADVISOR == <<"A","D","V","I","S","O","R">>

W_overwhelmed == <<"o","v","e","r","w","h","e","l","m","e","d">>

W_plan == <<"p","l","a","n">>

Vocabulary == <<W_Thought, W_Decision, W_Action, W_NoteWriter, W_ADVISOR, W_overwhelmed, W_plan>>

RECURSIVE JoinWords(_)
\* the words of ws separated by single spaces
JoinWords(ws) ==
    IF Len(ws) = 0 THEN <<>>
    ELSE IF Len(ws) = 1 THEN ws[1]
    ELSE ws[1] \o <<" ">> \o JoinWords(Tail(ws))

\* every narrative of at most n words of the vocabulary
NarrativesUpTo(n) ==
    { JoinWords([i \in 1..Len(ws) |-> Vocabulary[ws[i]]]) :
        ws \in UNION { [1..k -> 1..Len(Vocabulary)] : k \in 0..n } }

\* substrings the parsers look for
K_NOTEWRITER == <<"N","O","T","E","W","R","I","T","E","R">>

K_NoteWriter == <<"N","o","t","e","W","r","i","t","e","r">>

K_note == <<"n","o","t","e">>

K_ADVISOR == <<"A","D","V","I","S","O","R">>

K_Advisor == <<"A","d","v","i","s","o","r">>

K_guidance == <<"g","u","i","d","a","n","c","e">>

notewriter_keywords == {
    <<"c","r","e","a","t","e">>,
    <<"g","e","n","e","r","a","t","e">>,
    <<"w","r","i","t","e">>,
    <<"n","o","t","e","s">>,
    <<"s","t","u","d","y"," ","m","a","t","e","r","i","a","l">>,
    <<"c","o","n","t","e","n","t">>,
    <<"s","u","m","m","a","r","y">>,
    <<"e","x","p","l","a","i","n">> }

advisor_keywords == {
    <<"h","e","l","p">>,
    <<"a","d","v","i","c","e">>,
    <<"g","u","i","d","a","n","c","e">>,
    <<"o","v","e","r","w","h","e","l","m","e","d">>,
    <<"s","t","r","e","s","s","e","d">>,
    <<"s","t","r","u","g","g","l","i","n","g">>,
    <<"r","e","c","o","m","m","e","n","d">> }

S_DefaultCoordination == <<"D","e","f","a","u","l","t"," ","c","o","o","r","d","i","n","a","t","i","o","n">>

S_ParseFallback == <<"F","a","l","l","b","a","c","k"," ","d","u","e"," ","t","o"," ","p","a","r","s","e"," ","e","r","r","o","r">>

S_CoordFallback == <<"E","r","r","o","r"," ","i","n"," ","c","o","o","r","d","i","n","a","t","i","o","n","."," ","F","a","l","l","i","n","g"," ","b","a","c","k"," ","t","o"," ","p","l","a","n","n","e","r",".">>

S_Emergency == <<"E","m","e","r","g","e","n","c","y"," ","f","a","l","l","b","a","c","k"," ","p","l","a","n",":"," ","P","l","e","a","s","e"," ","t","r","y"," ","a","g","a","i","n"," ","o","r"," ","c","o","n","t","a","c","t"," ","s","u","p","p","o","r","t",".">>

\* agent names
PLANNER == <<"P","L","A","N","N","E","R">>

NOTEWRITER == <<"N","O","T","E","W","R","I","T","E","R">>

ADVISOR == <<"A","D","V","I","S","O","R">>

planner == <<"p","l","a","n","n","e","r">>

\* ------------------------------------------------------------------------
\* Python dictionaries
\* ------------------------------------------------------------------------

D(f) == [dict |-> f]

L(x) == [leaf |-> x]

\* isinstance(v, dict)
IsDict(v) == DOMAIN v = {"dict"}

EmptyDict == D([k \in {} |-> 0])

\* d.keys()
Keys(d) == DOMAIN d.dict

\* d.get(k, default)
Get(d, k, default) == IF k \in Keys(d) THEN d.dict[k] ELSE default

\* d[k] = v
Put(d, k, v) == D([x \in Keys(d) \cup {k} |-> IF x = k THEN v ELSE d.dict[x]])

\* a slip dict_reducer could have: a plain update, without the recursion
dict_reducer_shallow(dict1, dict2) ==
    D([key \in Keys(dict1) \cup Keys(dict2) |->
        IF key \in Keys(dict2) THEN dict2.dict[key] ELSE dict1.dict[key]])

RECURSIVE dict_reducer(_, _)
dict_reducer(dict1, dict2) ==
    D([key \in Keys(dict1) \cup Keys(dict2) |->
        IF key \in Keys(dict2)
        THEN IF /\ key \in Keys(dict1)
                /\ IsDict(dict1.dict[key])
                /\ IsDict(dict2.dict[key])
             THEN dict_reducer(dict1.dict[key], dict2.dict[key])
             ELSE dict2.dict[key]
        ELSE dict1.dict[key]])

\* ------------------------------------------------------------------------
\* Coordinator
\* ------------------------------------------------------------------------

\* a priority dictionary {agent: number}
PriorityDict(f) == D([a \in DOMAIN f |-> L(f[a])])

\* the analysis dictionary both parsers and the coordinator build
Analysis(required, priority, groups, reasoning) ==
    D([k \in {"required_agents", "priority", "concurrent_groups", "reasoning"} |->
        CASE k = "required_agents"   -> L(required)
          [] k = "priority"          -> priority
          [] k = "concurrent_groups" -> L(groups)
          [] k = "reasoning"         -> L(reasoning)])

\* the fixed configuration of the except branches
DefaultAnalysis(reasoning) ==
    Analysis(<<PLANNER>>, PriorityDict([a \in {PLANNER} |-> 1]), <<<<PLANNER>>>>, reasoning)

\* priority[agent] = n
SetPriority(priority, agent, n) ==
    [a \in DOMAIN priority \cup {agent} |-> IF a = agent THEN n ELSE priority[a]]

\* index of the first occurrence of needle in hay, 0 when there is none
Find(hay, needle) ==
    IF Contains(hay, needle)
    THEN CHOOSE i \in 1..(Len(hay) - Len(needle) + 1) :
            /\ SubSeq(hay, i, i + Len(needle) - 1) = needle
            /\ \A j \in 1..(i - 1) : SubSeq(hay, j, j + Len(needle) - 1) # needle
    ELSE 0

\* s.split(sep)[0]
SplitFirst(s, sep) ==
    IF Contains(s, sep) THEN SubSeq(s, 1, Find(s, sep) - 1) ELSE s

\* s.split(sep)[1], for s that contains sep
SplitSecond(s, sep) ==
    SplitFirst(SubSeq(s, Find(s, sep) + Len(sep), Len(s)), sep)

RECURSIVE Strip(_)
\* s.strip() for the one whitespace character narratives contain
Strip(s) ==
    IF Len(s) = 0 THEN s
    ELSE IF Head(s) = " " THEN Strip(Tail(s))
    ELSE IF s[Len(s)] = " " THEN Strip(SubSeq(s, 1, Len(s) - 1))
    ELSE s

\* the first definition of parse_coordinator_response; the second definition
\* below rebinds the name before coordinator_agent is ever called
parse_coordinator_response_1(response) ==
    IF response = None
    THEN DefaultAnalysis(S_ParseFallback)
    ELSE
    LET markers == Contains(response, W_Thought) /\ Contains(response, W_Decision)
        query_lower == Lower(response)
        react_nw == markers /\ (Contains(response, K_NoteWriter) \/ Contains(Lower(response), K_note))
        react_adv == markers /\ (Contains(response, K_Advisor) \/ Contains(Lower(response), K_guidance))
        req1 == <<PLANNER>> \o (IF react_nw THEN <<NOTEWRITER>> ELSE <<>>)
                            \o (IF react_adv THEN <<ADVISOR>> ELSE <<>>)
        pri0 == [a \in {PLANNER} |-> 1]
        pri1a == IF react_nw THEN SetPriority(pri0, NOTEWRITER, 2) ELSE pri0
        pri1 == IF react_adv THEN SetPriority(pri1a, ADVISOR, 3) ELSE pri1a
        grp1 == IF react_nw THEN <<<<PLANNER, NOTEWRITER>>>> ELSE <<<<PLANNER>>>>
        kw_nw == ContainsAny(query_lower, notewriter_keywords) /\ ~react_nw
        req2 == IF kw_nw THEN Append(req1, NOTEWRITER) ELSE req1
        pri2 == IF kw_nw THEN SetPriority(pri1, NOTEWRITER, 1) ELSE pri1
        grp2 == IF kw_nw THEN <<<<NOTEWRITER>>>> ELSE grp1
        kw_adv == ContainsAny(query_lower, advisor_keywords) /\ ~react_adv
        req3 == IF kw_adv THEN Append(req2, ADVISOR) ELSE req2
        pri3 == IF kw_adv THEN SetPriority(pri2, ADVISOR, 2) ELSE pri2
        reasoning == IF Contains(response, W_Thought) /\ Contains(response, W_Action)
                     THEN Strip(SplitFirst(SplitSecond(response, W_Thought), W_Action))
                     ELSE S_DefaultCoordination
    IN  Analysis(req3, PriorityDict(pri3), grp2, reasoning)

\* a slip the parser could have: the ReACT checks made without the marker guard
parse_coordinator_response_unguarded(response) ==
    IF response = None
    THEN DefaultAnalysis(S_ParseFallback)
    ELSE
    LET nw == Contains(response, K_NOTEWRITER) \/ Contains(Lower(response), K_note)
        adv == Contains(response, K_ADVISOR) \/ Contains(Lower(response), K_guidance)
    IN  Analysis(<<PLANNER>> \o (IF nw THEN <<NOTEWRITER>> ELSE <<>>)
                             \o (IF adv THEN <<ADVISOR>> ELSE <<>>),
                 PriorityDict([a \in {PLANNER} |-> 1]),
                 IF nw THEN <<<<PLANNER, NOTEWRITER>>>> ELSE <<<<PLANNER>>>>,
                 response)

\* a slip the parser could have: the agent list assigned instead of appended to
parse_coordinator_response_assign(response) ==
    IF response = None
    THEN DefaultAnalysis(S_ParseFallback)
    ELSE
    LET markers == Contains(response, W_Thought) /\ Contains(response, W_Decision)
        nw == markers /\ (Contains(response, K_NOTEWRITER) \/ Contains(Lower(response), K_note))
        adv == markers /\ (Contains(response, K_ADVISOR) \/ Contains(Lower(response), K_guidance))
    IN  Analysis(IF adv THEN <<ADVISOR>> ELSE IF nw THEN <<NOTEWRITER>> ELSE <<PLANNER>>,
                 PriorityDict([a \in {PLANNER} |-> 1]),
                 IF nw THEN <<<<PLANNER, NOTEWRITER>>>> ELSE <<<<PLANNER>>>>,
                 response)

\* the second definition, the one coordinator_agent calls
parse_coordinator_response(response) ==
    IF response = None
    THEN DefaultAnalysis(S_ParseFallback)
    ELSE
    LET markers == Contains(response, W_Thought) /\ Contains(response, W_Decision)
        nw == markers /\ (Contains(response, K_NOTEWRITER) \/ Contains(Lower(response), K_note))
        adv == markers /\ (Contains(response, K_ADVISOR) \/ Contains(Lower(response), K_guidance))
        req == <<PLANNER>> \o (IF nw THEN <<NOTEWRITER>> ELSE <<>>)
                           \o (IF adv THEN <<ADVISOR>> ELSE <<>>)
        pri0 == [a \in {PLANNER} |-> 1]
        pri1 == IF nw THEN SetPriority(pri0, NOTEWRITER, 2) ELSE pri0
        pri2 == IF adv THEN SetPriority(pri1, ADVISOR, 3) ELSE pri1
        grp == IF nw THEN <<<<PLANNER, NOTEWRITER>>>> ELSE <<<<PLANNER>>>>
    IN  Analysis(req, PriorityDict(pri2), grp, response)

\* analyze_context: state["messages"][-1] raises IndexError on an empty list
analyze_context_raises(state) == Len(state.dict["messages"].leaf) = 0

\* what one llm.agenerate call can do: raise, or return the message content,
\* which the client library types as an optional string
OracleRaise == [raised |-> TRUE, content |-> None]

OracleReturn(content) == [raised |-> FALSE, content |-> content]

\* the update a node returns for the results channel
ResultsUpdate(key, value) ==
    D([r \in {"results"} |-> D([k \in {key} |-> value])])

coordinator_agent(state, oracle) ==
    IF analyze_context_raises(state) \/ oracle.raised
    THEN ResultsUpdate("coordinator_analysis", DefaultAnalysis(S_CoordFallback))
    ELSE LET analysis == parse_coordinator_response(oracle.content)
         IN  ResultsUpdate("coordinator_analysis",
                Analysis(Get(analysis, "required_agents", L(<<PLANNER>>)).leaf,
                         Get(analysis, "priority", PriorityDict([a \in {PLANNER} |-> 1])),
                         Get(analysis, "concurrent_groups", L(<<<<PLANNER>>>>)).leaf,
                         oracle.content))

\* ------------------------------------------------------------------------
\* AgentExecutor
\* ------------------------------------------------------------------------

\* largest number of concurrency groups in an analysis handed to execute
MaxGroups == 2

\* largest number of agent names in one concurrency group
MaxGroupSize == 2

\* self.agents
agents == {PLANNER, NOTEWRITER, ADVISOR}

\* a name with no registered implementation
TUTOR == <<"T","U","T","O","R">>

AgentNames == <<PLANNER, NOTEWRITER, ADVISOR, TUTOR>>

\* x in xs, for a list xs
InList(x, xs) == \E i \in 1..Len(xs) : xs[i] = x

\* the text an agent's pipeline generated; only its producer is kept
GenText(agent) == <<"text by", agent>>

\* what a successful agent call returns
AgentOutput(agent) ==
    CASE agent = PLANNER ->
            D([k \in {"notes"} |-> L(GenText(PLANNER))])
      [] agent = NOTEWRITER ->
            D([k \in {"notes"} |-> D([n \in {"notes"} |-> L(GenText(NOTEWRITER))])])
      [] agent = ADVISOR ->
            D([k \in {"advisor_output"} |->
                D([g \in {"guidance", "metadata"} |->
                    IF g = "guidance"
                    THEN D([a \in {"advice"} |-> L(GenText(ADVISOR))])
                    ELSE D([m \in {"course_specific", "considers_learning_style"} |-> L(TRUE)])])])

S_ErrorNotes == <<"E","r","r","o","r"," ","g","e","n","e","r","a","t","i","n","g"," ","n","o","t","e","s","."," ","P","l","e","a","s","e"," ","t","r","y"," ","a","g","a","i","n",".">>

S_ErrorGuidance == <<"E","r","r","o","r"," ","g","e","n","e","r","a","t","i","n","g"," ","g","u","i","d","a","n","c","e","."," ","P","l","e","a","s","e"," ","t","r","y"," ","a","g","a","i","n",".">>

\* what an agent call returns when a stage of its pipeline raised: the except
\* branch of its __call__
AgentErrorOutput(agent) ==
    CASE agent = PLANNER ->
            D([k \in {"notes"} |-> L(S_ErrorNotes)])
      [] agent = NOTEWRITER ->
            D([k \in {"notes"} |-> L(S_ErrorNotes)])
      [] agent = ADVISOR ->
            D([k \in {"advisor_output"} |->
                D([g \in {"guidance"} |-> L(S_ErrorGuidance)])])

\* an exception object in the list asyncio.gather returns
Exc == [exc |-> "Exception"]

\* isinstance(result, Exception)
IsException(result) == DOMAIN result = {"exc"}

Min(a, b) == IF a < b THEN a ELSE b

\* the except branch of execute
EmergencyPayload ==
    ResultsUpdate("agent_outputs",
        D([k \in {planner} |-> D([p \in {"plan"} |-> L(S_Emergency)])]))

\* the normal return of execute
ExecReturn(results) == ResultsUpdate("agent_outputs", results)

\* a slip execute could have: the requirement check left out of the filter
LaunchList_registered_only(group, required) ==
    SelectSeq(group, LAMBDA agent_name : agent_name \in agents)

\* the tasks list built for one group: the agents that are both required and
\* registered, in group order
LaunchList(group, required) ==
    SelectSeq(group, LAMBDA agent_name : InList(agent_name, required) /\ agent_name \in agents)

RECURSIVE RecordFrom(_, _, _, _)
\* for agent_name, result in zip(group, group_results), from pair i onwards
RecordFrom(results, group, group_results, i) ==
    IF i > Min(Len(group), Len(group_results))
    THEN results
    ELSE RecordFrom(IF IsException(group_results[i])
                    THEN results
                    ELSE Put(results, Lower(group[i]), group_results[i]),
                    group, group_results, i + 1)

\* a slip execute could have: results of failed executions recorded as well
RecordResults_keep_failed(results, group, group_results) ==
    D([k \in Keys(results) \cup {Lower(group[i]) : i \in 1..Min(Len(group), Len(group_results))} |->
        IF \E i \in 1..Min(Len(group), Len(group_results)) : Lower(group[i]) = k
        THEN group_results[CHOOSE i \in 1..Min(Len(group), Len(group_results)) : Lower(group[i]) = k]
        ELSE results.dict[k]])

\* the loop over zip(group, group_results) that keeps successful results
RecordResults(results, group, group_results) ==
    RecordFrom(results, group, group_results, 1)

\* the analyses handed to execute: any list of required names and any
\* grouping of names, whether or not required or registered
NameSet == {AgentNames[i] : i \in 1..Len(AgentNames)}

RequiredLists ==
    { SelectSeq(AgentNames, LAMBDA a : a \in S) : S \in SUBSET NameSet }

GroupsUpTo(n) == UNION { [1..k -> NameSet] : k \in 0..n }

GroupLists == UNION { [1..k -> GroupsUpTo(MaxGroupSize)] : k \in 0..MaxGroups }

\* a graph state with the given results
StateWith(messages, results) ==
    D([k \in {"messages", "results"} |-> IF k = "messages" THEN L(messages) ELSE results])

\* the user's request
Query == <<"q","u","e","r","y">>

ExecInputs ==
    {StateWith(<<Query>>, EmptyDict)} \cup
    { StateWith(<<Query>>,
        D([k \in {"coordinator_analysis"} |->
            D([a \in {"required_agents", "concurrent_groups"} |->
                IF a = "required_agents" THEN L(req) ELSE L(grps)])])) :
      req \in RequiredLists, grps \in GroupLists }

\* ------------------------------------------------------------------------
\* State
\* ------------------------------------------------------------------------

VARIABLES
    c_pc,        \* coordinator_agent: "idle", "call" or "returned"
    c_state,     \* the state coordinator_agent is called on
    c_oracle,    \* what its llm.agenerate call does
    c_ret,       \* the update it returned
    e_pc,        \* execute: "idle", "start", "loop", "gather", "fallback", "returned", "raised"
    e_state,     \* the state execute is called on
    e_required,  \* its local required_agents
    e_groups,    \* its local concurrent_groups
    e_gi,        \* index of the group the for loop is at
    e_tasks,     \* the executions of the current group: agent and status
    e_results,   \* its local results
    e_ret,       \* the value it returned
    e_started,   \* agents started by the group loop so far
    e_log,       \* per processed group, the executions it launched and how each ended
    e_fb,        \* the last-resort Planner run: "none", "pending", "returned", "raised"
    e_fb_runs,   \* number of last-resort Planner runs started
    w_status,    \* the workflow run: "idle", "running", "ended" or "error"
    w_state,     \* the graph state as of the last completed superstep
    w_active,    \* nodes scheduled in the current superstep
    w_writes,    \* the update of each node that has finished in this superstep
    w_next,      \* nodes triggered so far for the next superstep
    w_route,     \* what should_end returned after the last execute run
    w_view,      \* the state should_end was evaluated on
    f_pc,        \* a library call: "idle", "call", "client", "returned" or "raised"
    f_args,      \* the arguments and environment of the library call
    f_ret,       \* what the library call returned
    f_calls,     \* the calls it made to the chat-completions client so far
    f_self       \* the fields of the object the library call is made on

coordVars == <<c_pc, c_state, c_oracle, c_ret>>

execVars == <<e_pc, e_state, e_required, e_groups, e_gi, e_tasks, e_results,
              e_ret, e_started, e_log, e_fb, e_fb_runs>>

wfVars == <<w_status, w_state, w_active, w_writes, w_next, w_route, w_view>>

libVars == <<f_pc, f_args, f_ret, f_calls, f_self>>

vars == <<coordVars, execVars, wfVars, libVars>>

\* everything execute does not touch
nonExecVars == <<coordVars, wfVars, libVars>>

CoordIdle ==
    /\ c_pc = "idle"
    /\ c_state = StateWith(<<Query>>, EmptyDict)
    /\ c_oracle = OracleRaise
    /\ c_ret = EmptyDict

ExecLocalsInit ==
    /\ e_required = <<>>
    /\ e_groups = <<>>
    /\ e_gi = 0
    /\ e_tasks = <<>>
    /\ e_results = EmptyDict
    /\ e_ret = EmptyDict
    /\ e_started = {}
    /\ e_log = <<>>
    /\ e_fb = "none"
    /\ e_fb_runs = 0

ExecIdle ==
    /\ e_pc = "idle"
    /\ e_state = StateWith(<<Query>>, EmptyDict)
    /\ ExecLocalsInit

LibIdle ==
    /\ f_pc = "idle"
    /\ f_args = <<>>
    /\ f_ret = <<>>
    /\ f_calls = <<>>
    /\ f_self = <<>>

NoWrites == [n \in {} |-> EmptyDict]

WfIdle ==
    /\ w_status = "idle"
    /\ w_state = StateWith(<<Query>>, EmptyDict)
    /\ w_active = {}
    /\ w_writes = NoWrites
    /\ w_next = {}
    /\ w_route = "none"
    /\ w_view = StateWith(<<Query>>, EmptyDict)

\* ------------------------------------------------------------------------
\* coordinator_agent, called once on a drawn state and oracle behaviour
\* ------------------------------------------------------------------------

OracleOutcomes(narratives) ==
    {OracleRaise, OracleReturn(None)} \cup { OracleReturn(n) : n \in narratives }

InitCoord ==
    /\ c_pc = "call"
    /\ c_state \in {StateWith(<<>>, EmptyDict), StateWith(<<Query>>, EmptyDict)}
    /\ c_oracle \in OracleOutcomes(NarrativesUpTo(MaxWords))
    /\ c_ret = EmptyDict
    /\ ExecIdle
    /\ WfIdle
    /\ LibIdle

CoordinatorCall ==
    /\ c_pc = "call"
    /\ c_ret' = coordinator_agent(c_state, c_oracle)
    /\ c_pc' = "returned"
    /\ UNCHANGED <<c_state, c_oracle, execVars, wfVars, libVars>>

NextCoord == CoordinatorCall

SpecCoord == InitCoord /\ [][NextCoord]_vars

\* ------------------------------------------------------------------------
\* AgentExecutor.execute, step by step
\* ------------------------------------------------------------------------

\* try: read the analysis, initialise results
ExecStart ==
    /\ e_pc = "start"
    /\ LET analysis == Get(e_state.dict["results"], "coordinator_analysis", EmptyDict)
       IN  /\ e_required' = Get(analysis, "required_agents", L(<<PLANNER>>)).leaf
           /\ e_groups' = Get(analysis, "concurrent_groups", L(<<>>)).leaf
    /\ e_results' = EmptyDict
    /\ e_gi' = 1
    /\ e_pc' = "loop"
    /\ UNCHANGED <<e_state, e_tasks, e_ret, e_started, e_log, e_fb, e_fb_runs, nonExecVars>>

\* one iteration of the for loop up to the gather: build the tasks of the
\* group and, if there are any, start them
ExecLaunch ==
    /\ e_pc = "loop"
    /\ e_gi <= Len(e_groups)
    /\ LET tasks == LaunchList(e_groups[e_gi], e_required)
       IN  IF Len(tasks) = 0
           THEN /\ e_gi' = e_gi + 1
                /\ e_log' = Append(e_log, <<>>)
                /\ UNCHANGED <<e_pc, e_tasks, e_started>>
           ELSE /\ e_tasks' = [i \in 1..Len(tasks) |-> [agent |-> tasks[i], status |-> "pending"]]
                /\ e_started' = e_started \cup {tasks[i] : i \in 1..Len(tasks)}
                /\ e_pc' = "gather"
                /\ UNCHANGED <<e_gi, e_log>>
    /\ UNCHANGED <<e_state, e_required, e_groups, e_results, e_ret, e_fb, e_fb_runs, nonExecVars>>

\* one started execution returns its output
AgentReturns ==
    /\ e_pc = "gather"
    /\ \E i \in 1..Len(e_tasks) :
        /\ e_tasks[i].status = "pending"
        /\ e_tasks' = [e_tasks EXCEPT ![i].status = "returned"]
    /\ UNCHANGED <<e_pc, e_state, e_required, e_groups, e_gi, e_results, e_ret,
                   e_started, e_log, e_fb, e_fb_runs, nonExecVars>>

\* a stage of one started execution raises inside the agent's own guard: the
\* call returns the agent's error output
AgentFails ==
    /\ e_pc = "gather"
    /\ \E i \in 1..Len(e_tasks) :
        /\ e_tasks[i].status = "pending"
        /\ e_tasks' = [e_tasks EXCEPT ![i].status = "failed"]
    /\ UNCHANGED <<e_pc, e_state, e_required, e_groups, e_gi, e_results, e_ret,
                   e_started, e_log, e_fb, e_fb_runs, nonExecVars>>

\* one started execution raises
AgentRaises ==
    /\ e_pc = "gather"
    /\ \E i \in 1..Len(e_tasks) :
        /\ e_tasks[i].status = "pending"
        /\ e_tasks' = [e_tasks EXCEPT ![i].status = "raised"]
    /\ UNCHANGED <<e_pc, e_state, e_required, e_groups, e_gi, e_results, e_ret,
                   e_started, e_log, e_fb, e_fb_runs, nonExecVars>>

\* a slip execute could have: the loop going on as soon as one execution of
\* the group has settled
ExecJoin_first_completed ==
    /\ e_pc = "gather"
    /\ \E i \in 1..Len(e_tasks) : e_tasks[i].status # "pending"
    /\ LET group_results == [i \in 1..Len(e_tasks) |->
                                IF e_tasks[i].status = "returned"
                                THEN AgentOutput(e_tasks[i].agent)
                                ELSE Exc]
       IN  e_results' = RecordResults(e_results, e_groups[e_gi], group_results)
    /\ e_log' = Append(e_log, e_tasks)
    /\ e_tasks' = <<>>
    /\ e_gi' = e_gi + 1
    /\ e_pc' = "loop"
    /\ UNCHANGED <<e_state, e_required, e_groups, e_ret, e_started, e_fb, e_fb_runs, nonExecVars>>

\* gather(return_exceptions=True) completes once every execution has settled;
\* the loop over zip(group, group_results) records the results
ExecJoin ==
    /\ e_pc = "gather"
    /\ \A i \in 1..Len(e_tasks) : e_tasks[i].status # "pending"
    /\ LET group_results == [i \in 1..Len(e_tasks) |->
                                IF e_tasks[i].status = "returned"
                                THEN AgentOutput(e_tasks[i].agent)
                                ELSE IF e_tasks[i].status = "failed"
                                THEN AgentErrorOutput(e_tasks[i].agent)
                                ELSE Exc]
       IN  e_results' = RecordResults(e_results, e_groups[e_gi], group_results)
    /\ e_log' = Append(e_log, e_tasks)
    /\ e_tasks' = <<>>
    /\ e_gi' = e_gi + 1
    /\ e_pc' = "loop"
    /\ UNCHANGED <<e_state, e_required, e_groups, e_ret, e_started, e_fb, e_fb_runs, nonExecVars>>

\* a slip execute could have: no last-resort Planner run
ExecEndLoop_no_fallback ==
    /\ e_pc = "loop"
    /\ e_gi > Len(e_groups)
    /\ e_pc' = "returned"
    /\ e_ret' = ExecReturn(e_results)
    /\ UNCHANGED <<e_state, e_required, e_groups, e_gi, e_tasks, e_results,
                   e_started, e_log, e_fb, e_fb_runs, nonExecVars>>

\* after the loop: return the results, or start the Planner as a last resort
ExecEndLoop ==
    /\ e_pc = "loop"
    /\ e_gi > Len(e_groups)
    /\ IF Keys(e_results) = {} /\ PLANNER \in agents
       THEN /\ e_pc' = "fallback"
            /\ e_fb' = "pending"
            /\ e_fb_runs' = e_fb_runs + 1
            /\ UNCHANGED e_ret
       ELSE /\ e_pc' = "returned"
            /\ e_ret' = ExecReturn(e_results)
            /\ UNCHANGED <<e_fb, e_fb_runs>>
    /\ UNCHANGED <<e_state, e_required, e_groups, e_gi, e_tasks, e_results,
                   e_started, e_log, nonExecVars>>

\* the last-resort Planner run returns: its result is stored and returned
FallbackReturns ==
    /\ e_pc = "fallback"
    /\ e_results' = Put(e_results, planner, AgentOutput(PLANNER))
    /\ e_ret' = ExecReturn(e_results')
    /\ e_fb' = "returned"
    /\ e_pc' = "returned"
    /\ UNCHANGED <<e_state, e_required, e_groups, e_gi, e_tasks, e_started, e_log,
                   e_fb_runs, nonExecVars>>

\* a slip execute could have: the except branch returning what was gathered
FallbackRaises_no_payload ==
    /\ e_pc = "fallback"
    /\ e_ret' = ExecReturn(e_results)
    /\ e_fb' = "raised"
    /\ e_pc' = "returned"
    /\ UNCHANGED <<e_state, e_required, e_groups, e_gi, e_tasks, e_results,
                   e_started, e_log, e_fb_runs, nonExecVars>>

\* the last-resort Planner run raises: the except branch returns the
\* emergency payload
FallbackRaises ==
    /\ e_pc = "fallback"
    /\ e_ret' = EmergencyPayload
    /\ e_fb' = "raised"
    /\ e_pc' = "returned"
    /\ UNCHANGED <<e_state, e_required, e_groups, e_gi, e_tasks, e_results,
                   e_started, e_log, e_fb_runs, nonExecVars>>

ExecStep ==
    \/ ExecStart
    \/ ExecLaunch
    \/ AgentReturns
    \/ AgentRaises
    \/ ExecJoin
    \/ ExecEndLoop
    \/ FallbackReturns
    \/ FallbackRaises

InitExec ==
    /\ CoordIdle
    /\ e_pc = "start"
    /\ e_state \in ExecInputs
    /\ ExecLocalsInit
    /\ WfIdle
    /\ LibIdle

NextExec == ExecStep

SpecExec == InitExec /\ [][NextExec]_vars

\* ------------------------------------------------------------------------
\* The top-level workflow of create_agents_graph, run by run_all_system
\* ------------------------------------------------------------------------
\* The compiled graph runs in supersteps: every scheduled node runs on the
\* state as of the end of the previous superstep; when all have finished,
\* their updates are merged into the state by the channel reducers and the
\* nodes their edges lead to are scheduled.  A node with several incoming
\* edges is scheduled when any one of them fires.  A conditional edge is
\* evaluated when its node finishes, on the state with that node's own
\* update applied.  An exception in a node aborts the run.

END == "__end__"

\* narratives the coordinator's oracle gives in the workflow
WorkflowNarratives ==
    { JoinWords(<<W_plan>>),
      JoinWords(<<W_Thought, W_NoteWriter, W_Decision>>),
      JoinWords(<<W_Thought, W_ADVISOR, W_Decision>>),
      JoinWords(<<W_Thought, W_NoteWriter, W_ADVISOR, W_Decision>>) }

\* the nodes in the order their updates are applied
NodeOrder == <<"advisor_analyze", "advisor_generate", "calendar_analyzer", "coordinator",
               "execute", "notewriter_analyze", "notewriter_generate", "plan_generator",
               "profile_analyzer", "task_analyzer">>

\* one update merged into the state: messages by add, results by dict_reducer
ApplyUpdate(state, update) ==
    D([k \in Keys(state) |->
        IF k \notin Keys(update) THEN state.dict[k]
        ELSE IF k = "messages" THEN L(state.dict[k].leaf \o update.dict[k].leaf)
        ELSE dict_reducer(state.dict[k], update.dict[k])])

RECURSIVE ApplyWrites(_, _, _)
\* the updates of a superstep merged into the state, from node i of NodeOrder on
ApplyWrites(state, writes, i) ==
    IF i > Len(NodeOrder) THEN state
    ELSE ApplyWrites(IF NodeOrder[i] \in DOMAIN writes
                     THEN ApplyUpdate(state, writes[NodeOrder[i]])
                     ELSE state,
                     writes, i + 1)

\* the update of a stage node: {"results": {key: {field: response}}}
StageUpdate(node, key, field) ==
    ResultsUpdate(key, D([f \in {field} |-> L(GenText(node))]))

\* a slip the routing could have: the Planner branch entered at its last stage
route_to_parallel_agents_last_stage(state) ==
    LET analysis == Get(state.dict["results"], "coordinator_analysis", EmptyDict)
        required_agents == Get(analysis, "required_agents", L(<<>>)).leaf
        next_nodes ==
            (IF InList(PLANNER, required_agents) THEN <<"plan_generator">> ELSE <<>>) \o
            (IF InList(NOTEWRITER, required_agents) THEN <<"notewriter_analyze">> ELSE <<>>) \o
            (IF InList(ADVISOR, required_agents) THEN <<"advisor_analyze">> ELSE <<>>)
    IN  IF Len(next_nodes) > 0 THEN next_nodes ELSE <<"calendar_analyzer">>

\* a slip the routing could have: no default when nothing matches
route_to_parallel_agents_no_default(state) ==
    LET analysis == Get(state.dict["results"], "coordinator_analysis", EmptyDict)
        required_agents == Get(analysis, "required_agents", L(<<>>)).leaf
    IN  (IF InList(PLANNER, required_agents) THEN <<"calendar_analyzer">> ELSE <<>>) \o
        (IF InList(NOTEWRITER, required_agents) THEN <<"notewriter_analyze">> ELSE <<>>) \o
        (IF InList(ADVISOR, required_agents) THEN <<"advisor_analyze">> ELSE <<>>)

route_to_parallel_agents(state) ==
    LET analysis == Get(state.dict["results"], "coordinator_analysis", EmptyDict)
        required_agents == Get(analysis, "required_agents", L(<<>>)).leaf
        next_nodes ==
            (IF InList(PLANNER, required_agents) THEN <<"calendar_analyzer">> ELSE <<>>) \o
            (IF InList(NOTEWRITER, required_agents) THEN <<"notewriter_analyze">> ELSE <<>>) \o
            (IF InList(ADVISOR, required_agents) THEN <<"advisor_analyze">> ELSE <<>>)
    IN  IF Len(next_nodes) > 0 THEN next_nodes ELSE <<"calendar_analyzer">>

\* a slip should_end could have: the Planner's output alone ends the request
should_end_planner_only(state) ==
    LET executed == Keys(Get(state.dict["results"], "agent_outputs", EmptyDict))
    IN  IF planner \in executed THEN END ELSE "coordinator"

\* a slip should_end could have: required names compared without lower()
should_end_no_lower(state) ==
    LET analysis == Get(state.dict["results"], "coordinator_analysis", EmptyDict)
        executed == Keys(Get(state.dict["results"], "agent_outputs", EmptyDict))
        required_agents == Get(analysis, "required_agents", L(<<>>)).leaf
        required == { required_agents[i] : i \in 1..Len(required_agents) }
    IN  IF required \subseteq executed THEN END ELSE "coordinator"

should_end(state) ==
    LET analysis == Get(state.dict["results"], "coordinator_analysis", EmptyDict)
        executed == Keys(Get(state.dict["results"], "agent_outputs", EmptyDict))
        required_agents == Get(analysis, "required_agents", L(<<>>)).leaf
        required == { Lower(required_agents[i]) : i \in 1..Len(required_agents) }
    IN  IF required \subseteq executed THEN END ELSE "coordinator"

\* node is scheduled in this superstep and has not finished yet
Scheduled(node) ==
    /\ w_status = "running"
    /\ node \in w_active
    /\ node \notin DOMAIN w_writes

\* position of node in NodeOrder
OrderOf(node) == CHOOSE i \in 1..Len(NodeOrder) : NodeOrder[i] = node

\* node can run now.  The nodes of a superstep share nothing: each reads the
\* state of the last superstep and writes its own update, so running them
\* one after the other in NodeOrder reaches the same results as any
\* interleaving of them.
Runnable(node) ==
    /\ Scheduled(node)
    /\ e_pc = "idle"
    /\ \A i \in 1..(OrderOf(node) - 1) :
        NodeOrder[i] \in w_active => NodeOrder[i] \in DOMAIN w_writes

\* node returns update; its outgoing edges trigger the nodes in targets
NodeFinishes(node, update, targets) ==
    /\ w_writes' = [n \in DOMAIN w_writes \cup {node} |->
                        IF n = node THEN update ELSE w_writes[n]]
    /\ w_next' = w_next \cup (targets \ {END})
    /\ UNCHANGED <<w_status, w_state, w_active>>

\* node raises: the graph run is aborted and run_all_system reports the error
NodeRaises ==
    /\ w_status' = "error"
    /\ w_active' = {}
    /\ w_writes' = NoWrites
    /\ w_next' = {}
    /\ UNCHANGED w_state

\* a stage node: one oracle call, which returns or raises
Stage(node, key, field, target) ==
    /\ Runnable(node)
    /\ \/ NodeFinishes(node, StageUpdate(node, key, field), {target})
       \/ NodeRaises
    /\ UNCHANGED <<w_route, w_view, coordVars, execVars, libVars>>

\* run_all_system builds the state and starts the graph at START -> coordinator
RunAllSystem ==
    /\ w_status = "idle"
    /\ w_status' = "running"
    /\ w_active' = {"coordinator"}
    /\ UNCHANGED <<w_state, w_writes, w_next, w_route, w_view, coordVars, execVars, libVars>>

CoordinatorNode ==
    /\ Runnable("coordinator")
    /\ \E oracle \in {OracleRaise} \cup { OracleReturn(n) : n \in WorkflowNarratives } :
        NodeFinishes("coordinator", coordinator_agent(w_state, oracle), {"profile_analyzer"})
    /\ UNCHANGED <<w_route, w_view, coordVars, execVars, libVars>>

ProfileAnalyzerNode ==
    /\ Runnable("profile_analyzer")
    /\ \/ LET update == StageUpdate("profile_analyzer", "profile_analysis", "analysis")
              targets == route_to_parallel_agents(ApplyUpdate(w_state, update))
          IN  NodeFinishes("profile_analyzer", update,
                           { targets[i] : i \in 1..Len(targets) })
       \/ NodeRaises
    /\ UNCHANGED <<w_route, w_view, coordVars, execVars, libVars>>

\* a slip the edges could have: calendar_analyzer wired straight to
\* plan_generator, past task_analyzer
CalendarAnalyzerNode_to_plan == Stage("calendar_analyzer", "calendar_analysis", "analysis", "plan_generator")

CalendarAnalyzerNode == Stage("calendar_analyzer", "calendar_analysis", "analysis", "task_analyzer")

TaskAnalyzerNode == Stage("task_analyzer", "task_analysis", "analysis", "plan_generator")

\* plan_generator indexes the three analyses it reads: a missing one raises
PlanGeneratorNode ==
    /\ Runnable("plan_generator")
    /\ \/ /\ {"profile_analysis", "calendar_analysis", "task_analysis"}
                \subseteq Keys(w_state.dict["results"])
          /\ NodeFinishes("plan_generator",
                          StageUpdate("plan_generator", "final_plan", "plan"), {"execute"})
       \/ NodeRaises
    /\ UNCHANGED <<w_route, w_view, coordVars, execVars, libVars>>

NotewriterAnalyzeNode == Stage("notewriter_analyze", "learning_analysis", "analysis", "notewriter_generate")

NotewriterGenerateNode == Stage("notewriter_generate", "generated_notes", "notes", "execute")

AdvisorAnalyzeNode == Stage("advisor_analyze", "situation_analysis", "analysis", "advisor_generate")

AdvisorGenerateNode == Stage("advisor_generate", "guidance", "advice", "execute")

\* the execute node starts: executor.execute is called on the superstep's state
ExecuteNodeBegins ==
    /\ Runnable("execute")
    /\ e_pc = "idle"
    /\ e_pc' = "start"
    /\ e_state' = w_state
    /\ UNCHANGED <<e_required, e_groups, e_gi, e_tasks, e_results, e_ret,
                   e_started, e_log, e_fb, e_fb_runs, wfVars, coordVars, libVars>>

\* execute has returned: its update is written and should_end picks the edge
ExecuteNodeEnds ==
    /\ Scheduled("execute")
    /\ e_pc = "returned"
    /\ LET view == ApplyUpdate(w_state, e_ret)
       IN  /\ w_view' = view
           /\ w_route' = should_end(view)
           /\ NodeFinishes("execute", e_ret, {should_end(view)})
    /\ e_pc' = "idle"
    /\ e_state' = StateWith(<<Query>>, EmptyDict)
    /\ e_required' = <<>>
    /\ e_groups' = <<>>
    /\ e_gi' = 0
    /\ e_tasks' = <<>>
    /\ e_results' = EmptyDict
    /\ e_ret' = EmptyDict
    /\ e_started' = {}
    /\ e_log' = <<>>
    /\ e_fb' = "none"
    /\ e_fb_runs' = 0
    /\ UNCHANGED <<coordVars, libVars>>

\* the superstep ends: updates are merged and the triggered nodes scheduled;
\* with nothing scheduled the run is over
Superstep ==
    /\ w_status = "running"
    /\ w_active # {}
    /\ DOMAIN w_writes = w_active
    /\ w_state' = ApplyWrites(w_state, w_writes, 1)
    /\ w_active' = w_next
    /\ w_writes' = NoWrites
    /\ w_next' = {}
    /\ w_status' = IF w_next = {} THEN "ended" ELSE "running"
    /\ w_route' = "none"
    /\ w_view' = StateWith(<<Query>>, EmptyDict)
    /\ UNCHANGED <<coordVars, execVars, libVars>>

\* the registered agents guard their whole pipeline, so inside the workflow an
\* agent call always returns
ExecStepInWorkflow ==
    /\ w_status = "running"
    /\ \/ ExecStart
       \/ ExecLaunch
       \/ AgentReturns
       \/ AgentFails
       \/ ExecJoin
       \/ ExecEndLoop
       \/ FallbackReturns

Init ==
    /\ CoordIdle
    /\ ExecIdle
    /\ WfIdle
    /\ LibIdle

Next ==
    \/ RunAllSystem
    \/ CoordinatorNode
    \/ ProfileAnalyzerNode
    \/ CalendarAnalyzerNode
    \/ TaskAnalyzerNode
    \/ PlanGeneratorNode
    \/ NotewriterAnalyzeNode
    \/ NotewriterGenerateNode
    \/ AdvisorAnalyzeNode
    \/ AdvisorGenerateNode
    \/ ExecuteNodeBegins
    \/ ExecStepInWorkflow
    \/ ExecuteNodeEnds
    \/ Superstep

Spec == Init /\ [][Next]_vars

\* the same workflow on an event loop that keeps running: as long as some
\* node, executor step or superstep can be taken, one is taken
SpecLive == Init /\ [][Next]_vars /\ WF_vars(Next)

\* ------------------------------------------------------------------------
\* Properties of AgentExecutor.execute (checked under SpecExec)
\* ------------------------------------------------------------------------

\* every execution the group loop launched has settled and been joined
GroupsDone == e_pc \in {"fallback", "returned"}

\* executions launched by the group loop, as <<group index, position>>
Launched == UNION { { <<g, i>> : i \in 1..Len(e_log[g]) } : g \in 1..Len(e_log) }

AllLaunchedRaised == \A x \in Launched : e_log[x[1]][x[2]].status = "raised"

NothingGathered == \A x \in Launched : e_log[x[1]][x[2]].status # "returned"

AnalysisAbsent == "coordinator_analysis" \notin Keys(e_state.dict["results"])

OnlyPlannerOutput == D([k \in {planner} |-> AgentOutput(PLANNER)])

\* C1: every entry execute writes into agent_outputs is keyed by the
\* lowercased name of the agent whose execution produced that output.
C1_KeyedByProducer ==
    \A k \in Keys(e_results) :
        \E a \in agents : k = Lower(a) /\ e_results.dict[k] = AgentOutput(a)

\* C3: the group loop starts an agent only if its name is in required_agents
\* and in the registered agent map.
C3_OnlyRequiredAndRegistered ==
    \A a \in e_started : InList(a, e_required) /\ a \in agents

\* a finished run whose groups named an agent that is registered but not
\* required, and one that is not registered, and that still launched something
C3_Witness ==
    /\ e_pc = "returned"
    /\ e_started # {}
    /\ \E g \in 1..Len(e_groups) : \E i \in 1..Len(e_groups[g]) :
        e_groups[g][i] \in agents /\ ~InList(e_groups[g][i], e_required)
    /\ \E g \in 1..Len(e_groups) : \E i \in 1..Len(e_groups[g]) :
        e_groups[g][i] \notin agents /\ InList(e_groups[g][i], e_required)

\* one group of two different agents, both launched, one raised, one returned
C4_Case ==
    /\ Len(e_groups) = 1
    /\ Len(e_log) = 1
    /\ Len(e_groups[1]) = 2
    /\ Len(e_log[1]) = 2
    /\ e_groups[1][1] # e_groups[1][2]
    /\ {e_log[1][1].status, e_log[1][2].status} = {"returned", "raised"}

\* C4: when one of two launched agents of a group raises and the other
\* succeeds, execute returns agent_outputs holding exactly the survivor's
\* output under its lowercased name, and no exception escapes execute.
C4_PartialFailure ==
    /\ e_pc # "raised"
    /\ (e_pc = "returned" /\ C4_Case) =>
        LET s == IF e_log[1][1].status = "returned" THEN 1 ELSE 2
        IN  e_ret = ExecReturn(D([k \in {Lower(e_groups[1][s])} |-> AgentOutput(e_groups[1][s])]))

C4_Witness == e_pc = "returned" /\ C4_Case

\* C5 as stated: if every execution launched in every group raises, execute
\* returns the emergency payload.
C5_AllRaisedGivesEmergency ==
    (e_pc = "returned" /\ Launched # {} /\ AllLaunchedRaised) => e_ret = EmergencyPayload

\* C5 amended: if every execution launched in every group raises, execute
\* makes one last-resort Planner run; it returns the emergency payload if
\* that run raises and {planner: its result} if it returns.  Whenever an
\* exception escapes the body of execute the emergency payload is returned.
C5_Amended ==
    /\ (e_pc = "returned" /\ Launched # {} /\ AllLaunchedRaised) =>
        /\ e_fb_runs = 1
        /\ e_fb \in {"returned", "raised"}
        /\ e_fb = "raised" => e_ret = EmergencyPayload
        /\ e_fb = "returned" => e_ret = ExecReturn(OnlyPlannerOutput)
    /\ (e_pc = "returned" /\ e_fb = "raised") => e_ret = EmergencyPayload
    /\ e_pc # "raised"

C5_Witness ==
    /\ e_pc = "returned"
    /\ Cardinality(Launched) >= 2
    /\ AllLaunchedRaised
    /\ e_fb = "raised"

\* C6 as stated: when coordinator_analysis is absent, or nothing was gathered
\* by the group loop, the Planner is run alone once and its result is the
\* only entry of agent_outputs.
C6_FallbackReturnsPlannerResult ==
    (e_pc = "returned" /\ (AnalysisAbsent \/ NothingGathered)) =>
        /\ e_fb_runs = 1
        /\ e_ret = ExecReturn(OnlyPlannerOutput)

\* C6 amended: in those cases the Planner is run alone exactly once (never
\* by the group loop when the analysis is absent); if that run returns, its
\* result is the only entry of agent_outputs, under "planner"; if it raises,
\* the emergency payload is returned.
C6_Amended ==
    /\ e_pc = "fallback" => (e_tasks = <<>> /\ e_fb_runs = 1)
    /\ (GroupsDone /\ AnalysisAbsent) => e_started = {}
    /\ (e_pc = "returned" /\ (AnalysisAbsent \/ NothingGathered)) =>
        /\ e_fb_runs = 1
        /\ \/ e_fb = "returned" /\ e_ret = ExecReturn(OnlyPlannerOutput)
           \/ e_fb = "raised" /\ e_ret = EmergencyPayload

C6_Witness ==
    /\ e_pc = "returned"
    /\ AnalysisAbsent
    /\ e_fb = "returned"

\* every execution launched for a group the loop has left has settled
EarlierGroupsSettled ==
    \A g \in 1..Len(e_log) : \A i \in 1..Len(e_log[g]) : e_log[g][i].status # "pending"

\* the loop is at group e_gi after having processed groups 1 .. e_gi - 1, and
\* the executions under way are those of group e_gi
GroupsInDeclaredOrder ==
    /\ e_pc \in {"loop", "gather"} => Len(e_log) = e_gi - 1
    /\ e_pc = "gather" =>
        /\ e_gi <= Len(e_groups)
        /\ [i \in 1..Len(e_tasks) |-> e_tasks[i].agent] = LaunchList(e_groups[e_gi], e_required)

\* the loop moves on by one group at a time, and only when nothing launched
\* for the current group is still pending
BarrierBetweenGroups ==
    (e_pc \in {"loop", "gather"} /\ e_gi' # e_gi) =>
        /\ e_gi' = e_gi + 1
        /\ \A i \in 1..Len(e_tasks) : e_tasks[i].status # "pending"

\* C24: execute processes the concurrency groups in their declared order with
\* a barrier between them: no agent of group k+1 is started before every
\* execution launched for group k has returned or raised.
C24_GroupOrderAndBarrier ==
    /\ [](GroupsInDeclaredOrder /\ EarlierGroupsSettled)
    /\ [][BarrierBetweenGroups]_vars

\* the executions of the second group are under way after the first group
\* launched two, of which one raised
C24_Witness ==
    /\ e_pc = "gather"
    /\ e_gi = 2
    /\ Len(e_log[1]) = 2
    /\ \E i \in 1..2 : e_log[1][i].status = "raised"
    /\ \E i \in 1..Len(e_tasks) : e_tasks[i].status = "pending"

\* ------------------------------------------------------------------------
\* Properties of coordinator_agent (checked under SpecCoord)
\* ------------------------------------------------------------------------

ReturnedAnalysis == c_ret.dict["results"].dict["coordinator_analysis"]

ReturnedRequired == ReturnedAnalysis.dict["required_agents"].leaf

ReturnedGroups == ReturnedAnalysis.dict["concurrent_groups"].leaf

\* the oracle answered with a narrative and the context analysis succeeded
NarrativeParsed ==
    /\ c_pc = "returned"
    /\ ~analyze_context_raises(c_state)
    /\ ~c_oracle.raised
    /\ c_oracle.content # None

HasMarkers(response) == Contains(response, W_Thought) /\ Contains(response, W_Decision)

HasKeywordTrigger(response) ==
    \/ ContainsAny(Lower(response), notewriter_keywords)
    \/ ContainsAny(Lower(response), advisor_keywords)

\* C7: the analysis the coordinator writes always has a non-empty
\* required_agents containing PLANNER.
C7_RequiredHasPlanner ==
    c_pc = "returned" => (Len(ReturnedRequired) > 0 /\ InList(PLANNER, ReturnedRequired))

C7_Witness == NarrativeParsed /\ Len(ReturnedRequired) = 3

\* C8: a narrative without the Thought:/Decision: marker pair and without any
\* keyword trigger gives required_agents = [PLANNER], concurrent_groups = [[PLANNER]].
C8_DefaultAnalysis ==
    (NarrativeParsed /\ ~HasMarkers(c_oracle.content) /\ ~HasKeywordTrigger(c_oracle.content)) =>
        (ReturnedRequired = <<PLANNER>> /\ ReturnedGroups = <<<<PLANNER>>>>)

C8_Witness ==
    /\ NarrativeParsed
    /\ ~HasMarkers(c_oracle.content)
    /\ ~HasKeywordTrigger(c_oracle.content)
    /\ Contains(c_oracle.content, K_ADVISOR)
    /\ Contains(c_oracle.content, W_Thought)

\* C9: a narrative containing "overwhelmed" makes ADVISOR required, with or
\* without the markers.
C9_OverwhelmedAddsAdvisor ==
    (NarrativeParsed /\ Contains(c_oracle.content, W_overwhelmed)) =>
        InList(ADVISOR, ReturnedRequired)

\* some step of coordinator_agent failed
CoordinatorStepFailed ==
    \/ analyze_context_raises(c_state)
    \/ c_oracle.raised
    \/ c_oracle.content = None

\* C10: if context analysis, the oracle call or parsing fails, the
\* coordinator returns the fixed default analysis with a reasoning string
\* that notes the fallback.
C10_FailureGivesDefault ==
    (c_pc = "returned" /\ CoordinatorStepFailed) =>
        \/ c_ret = ResultsUpdate("coordinator_analysis", DefaultAnalysis(S_CoordFallback))
        \/ c_ret = ResultsUpdate("coordinator_analysis", DefaultAnalysis(S_ParseFallback))

\* C23: in every analysis the parser returns, each agent of required_agents
\* is named in at least one group of concurrent_groups, so the executor's
\* group loop launches every required agent.
C23_RequiredAgentsGrouped ==
    NarrativeParsed =>
        \A i \in 1..Len(ReturnedRequired) :
            \E g \in 1..Len(ReturnedGroups) : InList(ReturnedRequired[i], ReturnedGroups[g])

\* ------------------------------------------------------------------------
\* Properties of the workflow (checked under Spec)
\* ------------------------------------------------------------------------

\* lowercased names of the required agents in the state should_end saw
ViewRequired ==
    LET analysis == Get(w_view.dict["results"], "coordinator_analysis", EmptyDict)
        required_agents == Get(analysis, "required_agents", L(<<>>)).leaf
    IN  { Lower(required_agents[i]) : i \in 1..Len(required_agents) }

\* keys of agent_outputs in the state should_end saw
ViewExecuted == Keys(Get(w_view.dict["results"], "agent_outputs", EmptyDict))

ExecuteJustRan == w_status = "running" /\ "execute" \in DOMAIN w_writes

\* after a run of execute the edge to END is taken exactly when every
\* required agent has an entry in agent_outputs, and the edge to coordinator
\* otherwise
C2_EdgeAfterExecute ==
    ExecuteJustRan =>
        /\ w_route = END <=> ViewRequired \subseteq ViewExecuted
        /\ w_route = "coordinator" <=> ~(ViewRequired \subseteq ViewExecuted)
        /\ "coordinator" \in w_next <=> ~(ViewRequired \subseteq ViewExecuted)

\* the run ends only through the END edge of execute, and ends there unless
\* another branch of the same superstep is still on its way to execute
C2_EndOfRun ==
    /\ (w_status = "running" /\ w_status' = "ended") =>
        (ExecuteJustRan /\ w_route = END /\ ViewRequired \subseteq ViewExecuted)
    /\ (ExecuteJustRan /\ w_status' = "running" /\ DOMAIN w_writes' = {}) =>
        /\ w_route = "coordinator" => "coordinator" \in w_active'
        /\ w_route = END => "coordinator" \notin w_active'
    /\ (ExecuteJustRan /\ w_active = {"execute"} /\ w_route = END /\ DOMAIN w_writes' = {}) =>
        w_status' = "ended"

RequiredIn(state) ==
    Get(Get(state.dict["results"], "coordinator_analysis", EmptyDict),
        "required_agents", L(<<>>)).leaf

\* keys of agent_outputs in a graph state
RecordedIn(state) == Keys(Get(state.dict["results"], "agent_outputs", EmptyDict))

\* the run is going on, agent is required and has no entry in agent_outputs
Unrecorded(agent) ==
    /\ w_status = "running"
    /\ InList(agent, RequiredIn(w_state))
    /\ Lower(agent) \notin RecordedIn(w_state)

\* a run that has ended has an entry in agent_outputs for every required agent
EndsOnlyWhenAllRecorded ==
    w_status = "ended" =>
        \A agent \in agents :
            InList(agent, RequiredIn(w_state)) => Lower(agent) \in RecordedIn(w_state)

\* execute has run and left a required agent without an entry: the edge to
\* coordinator is taken
LoopsBackWhenUnrecorded ==
    (ExecuteJustRan /\ \E agent \in agents :
        InList(agent, RequiredIn(w_view)) /\ Lower(agent) \notin RecordedIn(w_view))
    => (w_route = "coordinator" /\ "coordinator" \in w_next)

\* the superstep in which execute took the edge to coordinator is followed by
\* one in which coordinator runs, unless a node of that superstep raised
CoordinatorFollowsExecute ==
    (ExecuteJustRan /\ w_route = "coordinator" /\ DOMAIN w_writes' = {} /\ w_status' # "error")
    => (w_status' = "running" /\ "coordinator" \in w_active')

\* a scheduled node can run, the executor can take a step, execute can hand
\* back its result, or the superstep can be closed
CanStep ==
    \/ ENABLED (\/ CoordinatorNode \/ ProfileAnalyzerNode \/ CalendarAnalyzerNode
                \/ TaskAnalyzerNode \/ PlanGeneratorNode \/ NotewriterAnalyzeNode
                \/ NotewriterGenerateNode \/ AdvisorAnalyzeNode \/ AdvisorGenerateNode
                \/ ExecuteNodeBegins \/ ExecStepInWorkflow)
    \/ (Scheduled("execute") /\ e_pc = "returned")
    \/ (w_status = "running" /\ w_active # {} /\ DOMAIN w_writes = w_active)

\* while a required agent has no entry the request is never at a standstill,
\* whatever the number of passes made so far: no counter or timeout stops it
NeverStopsWhileUnrecorded ==
    (\E agent \in agents : Unrecorded(agent)) => CanStep

\* C21: when a required agent has no entry in agent_outputs, the termination
\* condition at execute does not hold, every run of execute is followed by
\* coordinator, and nothing else ends the request: it has not ended and it
\* can always take a further step, so the loop goes on without bound.
C21_UnrecordedAgentLoopsForever ==
    /\ [](EndsOnlyWhenAllRecorded /\ LoopsBackWhenUnrecorded /\ NeverStopsWhileUnrecorded)
    /\ [][CoordinatorFollowsExecute]_vars

\* coordinator is scheduled again after execute has run and left ADVISOR,
\* which no concurrency group names, without an entry
C21_Witness ==
    /\ Unrecorded(ADVISOR)
    /\ planner \in RecordedIn(w_state)
    /\ "coordinator" \in w_active

\* ------------------------------------------------------------------------
\* Order of the nodes (checked under Spec)
\* ------------------------------------------------------------------------

\* the nodes whose edges lead to node
Predecessors(node) ==
    CASE node = "coordinator" -> {"execute"}
      [] node = "profile_analyzer" -> {"coordinator"}
      [] node \in {"calendar_analyzer", "notewriter_analyze", "advisor_analyze"} -> {"profile_analyzer"}
      [] node = "task_analyzer" -> {"calendar_analyzer"}
      [] node = "plan_generator" -> {"task_analyzer"}
      [] node = "notewriter_generate" -> {"notewriter_analyze"}
      [] node = "advisor_generate" -> {"advisor_analyze"}
      [] node = "execute" -> {"plan_generator", "notewriter_generate", "advisor_generate"}

\* the run starts at coordinator alone
StartsAtCoordinator ==
    (w_status = "idle" /\ w_status' = "running") => w_active' = {"coordinator"}

\* a node runs in a superstep only if one of the nodes leading to it ran in
\* the superstep before
RunsAfterPredecessor ==
    (w_status = "running" /\ w_status' = "running" /\ w_active' # w_active) =>
        \A node \in w_active' : Predecessors(node) \cap w_active # {}

\* C26: the order of the nodes respects the declared state machine:
\* coordinator runs first and after every loop-back from execute,
\* profile_analyzer only directly after coordinator, every stage of a
\* specialist pipeline directly after the stage before it, the first stages
\* after profile_analyzer, and execute only from plan_generator,
\* notewriter_generate or advisor_generate.
C26_NodeOrder == [][StartsAtCoordinator /\ RunsAfterPredecessor]_vars

\* coordinator runs again after a loop-back from execute
C26_Witness ==
    /\ w_status = "running"
    /\ "coordinator" \in w_active
    /\ "final_plan" \in Keys(w_state.dict["results"])
    /\ RecordedIn(w_state) # {}

\* the stage nodes of the specialist pipelines
StageNodes == {"calendar_analyzer", "task_analyzer", "plan_generator", "notewriter_analyze",
               "notewriter_generate", "advisor_analyze", "advisor_generate"}

\* C27: in a pass that enters more than one specialist pipeline, execute runs
\* once, and only after the last stage of every entered pipeline has
\* completed: no stage is still to run when execute runs.
C27_ExecuteAfterAllBranches ==
    (w_status = "running" /\ "execute" \in w_active) => w_active \cap StageNodes = {}

\* ------------------------------------------------------------------------
\* Termination of the workflow (checked under SpecLive)
\* ------------------------------------------------------------------------

\* reasoning of the coordinator analysis in an update or a graph state
ReasoningIn(state) ==
    Get(Get(state.dict["results"], "coordinator_analysis", EmptyDict),
        "reasoning", L(None)).leaf

\* no oracle call has failed: no node raised, no agent call went through its
\* except branch, and the coordinator did not fall back on its default
OracleCallsSucceed ==
    /\ w_status # "error"
    /\ \A i \in 1..Len(e_tasks) : e_tasks[i].status # "failed"
    /\ ReasoningIn(w_state) # S_CoordFallback
    /\ \A node \in DOMAIN w_writes : ReasoningIn(StateWith(<<>>, w_writes[node].dict["results"])) # S_CoordFallback

\* C22: when every oracle call returns successfully, the workflow eventually
\* reaches END, whatever narratives the coordinator's oracle produces.
C22_WorkflowReachesEnd ==
    ([]OracleCallsSucceed) => <>(w_status = "ended")

\* ------------------------------------------------------------------------
\* route_to_parallel_agents, called on drawn coordinator analyses
\* ------------------------------------------------------------------------

\* longest required_agents list the routing is checked on
MaxRequired == 3

\* required_agents in any order, with repetitions and unregistered names
RouteLists == UNION { [1..k -> NameSet] : k \in 0..MaxRequired }

RouteInputs ==
    {StateWith(<<Query>>, EmptyDict)} \cup
    { StateWith(<<Query>>,
        D([k \in {"coordinator_analysis"} |->
            D([a \in {"required_agents"} |-> L(req)])])) : req \in RouteLists }

InitRoute ==
    /\ f_pc = "call"
    /\ f_args \in { [fn |-> "route_to_parallel_agents", state |-> st] : st \in RouteInputs }
    /\ f_ret = <<>>
    /\ f_calls = <<>>
    /\ f_self = <<>>
    /\ CoordIdle
    /\ ExecIdle
    /\ WfIdle

\* the conditional edge of profile_analyzer evaluates the routing function
RouteCall ==
    /\ f_pc = "call"
    /\ f_args.fn = "route_to_parallel_agents"
    /\ f_ret' = route_to_parallel_agents(f_args.state)
    /\ f_pc' = "returned"
    /\ UNCHANGED <<f_args, f_calls, f_self, coordVars, execVars, wfVars>>

NextRoute == RouteCall

SpecRoute == InitRoute /\ [][NextRoute]_vars

\* required_agents of the state the routing was called on, as a set
RouteRequired ==
    LET analysis == Get(f_args.state.dict["results"], "coordinator_analysis", EmptyDict)
        req == Get(analysis, "required_agents", L(<<>>)).leaf
    IN  { req[i] : i \in 1..Len(req) }

RouteReturned == f_pc = "returned" /\ f_args.fn = "route_to_parallel_agents"

\* the entry nodes of the required specialists
RouteExpected ==
    (IF PLANNER \in RouteRequired THEN {"calendar_analyzer"} ELSE {}) \cup
    (IF NOTEWRITER \in RouteRequired THEN {"notewriter_analyze"} ELSE {}) \cup
    (IF ADVISOR \in RouteRequired THEN {"advisor_analyze"} ELSE {})

\* C11: the set of next nodes routed to after profile_analyzer is exactly the
\* entry nodes of the required specialists (calendar_analyzer for PLANNER,
\* notewriter_analyze for NOTEWRITER, advisor_analyze for ADVISOR), it is
\* {calendar_analyzer} when none of the three is required, and never empty.
C11_RoutingAtProfileAnalyzer ==
    RouteReturned =>
        LET next_nodes == { f_ret[i] : i \in 1..Len(f_ret) }
        IN  /\ next_nodes # {}
            /\ RouteExpected # {} => next_nodes = RouteExpected
            /\ RouteExpected = {} => next_nodes = {"calendar_analyzer"}

\* routed on a list that names an unregistered agent only: the default applies
C11_Witness ==
    /\ RouteReturned
    /\ RouteRequired = {TUTOR}
    /\ f_ret = <<"calendar_analyzer">>

\* ------------------------------------------------------------------------
\* Properties of the results channel (checked under Spec)
\* ------------------------------------------------------------------------

RECURSIVE KeysKept(_, _)
\* every key of old, at every nesting depth, is a key of new
KeysKept(old, new) ==
    \A k \in Keys(old) :
        /\ k \in Keys(new)
        /\ IsDict(old.dict[k]) =>
            /\ IsDict(new.dict[k])
            /\ KeysKept(old.dict[k], new.dict[k])

\* C12: within one request the key set of results only grows: every key, at
\* every nesting depth, present in results before the updates of a step are
\* merged is still present afterwards.
C12_ResultsKeysOnlyGrow ==
    [][KeysKept(w_state.dict["results"], w_state'.dict["results"])]_vars

\* ------------------------------------------------------------------------
\* dict_reducer, called on drawn pairs of nested dictionaries
\* ------------------------------------------------------------------------

\* the scalars stored in the dictionaries are 1..MaxScalar
MaxScalar == 3

Scalars == { L(n) : n \in 1..MaxScalar }

\* every dictionary with keys among keys and values among values
DictsOver(keys, values) == UNION { { D(f) : f \in [K -> values] } : K \in SUBSET keys }

\* dictionaries whose values are scalars
FlatDicts == DictsOver({"x", "y"}, Scalars)

MergeValues == Scalars \cup FlatDicts

\* dict1 and dict2 share the key a; b is only in dict1 and c only in dict2
MergeLeft == DictsOver({"a", "b"}, MergeValues)

MergeRight == DictsOver({"a", "c"}, MergeValues)

InitMerge ==
    /\ f_pc = "call"
    /\ \E d1 \in MergeLeft, d2 \in MergeRight :
        f_args = [fn |-> "dict_reducer", dict1 |-> d1, dict2 |-> d2]
    /\ f_ret = <<>>
    /\ f_calls = <<>>
    /\ f_self = <<>>
    /\ CoordIdle
    /\ ExecIdle
    /\ WfIdle

MergeCall ==
    /\ f_pc = "call"
    /\ f_args.fn = "dict_reducer"
    /\ f_ret' = dict_reducer(f_args.dict1, f_args.dict2)
    /\ f_pc' = "returned"
    /\ UNCHANGED <<f_args, f_calls, f_self, coordVars, execVars, wfVars>>

NextMerge == MergeCall

SpecMerge == InitMerge /\ [][NextMerge]_vars

MergeReturned == f_pc = "returned" /\ f_args.fn = "dict_reducer"

\* the merge of two dictionaries of scalars: union of the keys, d2 overrides
ReferenceFlat(d1, d2) ==
    D([k \in Keys(d1) \cup Keys(d2) |-> IF k \in Keys(d2) THEN d2.dict[k] ELSE d1.dict[k]])

\* C13: dict_reducer(d1, d2) is the reference merge: its keys are the union
\* of both key sets; a key whose value is a dictionary in both is merged
\* recursively; any other key present in d2 takes d2's value; a key only in
\* d1 keeps d1's value.
C13_ReferenceMerge ==
    MergeReturned =>
        LET d1 == f_args.dict1
            d2 == f_args.dict2
        IN  /\ Keys(f_ret) = Keys(d1) \cup Keys(d2)
            /\ \A k \in Keys(f_ret) :
                IF k \in Keys(d1) /\ k \in Keys(d2) /\ IsDict(d1.dict[k]) /\ IsDict(d2.dict[k])
                THEN f_ret.dict[k] = ReferenceFlat(d1.dict[k], d2.dict[k])
                ELSE IF k \in Keys(d2)
                THEN f_ret.dict[k] = d2.dict[k]
                ELSE f_ret.dict[k] = d1.dict[k]

\* {a: {x: 1}, b: 2} merged with {a: {y: 2}, c: 3} gave
\* {a: {x: 1, y: 2}, b: 2, c: 3}
C13_Witness ==
    /\ MergeReturned
    /\ f_args.dict1 = D([k \in {"a", "b"} |->
                            IF k = "a" THEN D([j \in {"x"} |-> L(1)]) ELSE L(2)])
    /\ f_args.dict2 = D([k \in {"a", "c"} |->
                            IF k = "a" THEN D([j \in {"y"} |-> L(2)]) ELSE L(3)])
    /\ f_ret = D([k \in {"a", "b", "c"} |->
                    IF k = "a" THEN D([j \in {"x", "y"} |-> IF j = "x" THEN L(1) ELSE L(2)])
                    ELSE IF k = "b" THEN L(2) ELSE L(3)])

\* ------------------------------------------------------------------------
\* dict_reducer on objects: what the call does to the dictionaries it is given
\* ------------------------------------------------------------------------
\* A dictionary object is a function from its keys to cells; a cell is a
\* scalar or a reference to another dictionary object; the heap maps the
\* addresses of the objects to the objects.

IsRef(cell) == DOMAIN cell = {"ref"}

RECURSIVE DictPaths(_)
\* the paths from a dictionary value to the dictionaries nested in it
DictPaths(d) ==
    {<<>>} \cup UNION { { <<k>> \o path : path \in DictPaths(d.dict[k]) } :
                            k \in { j \in Keys(d) : IsDict(d.dict[j]) } }

RECURSIVE At(_, _)
At(d, path) == IF path = <<>> THEN d ELSE At(d.dict[Head(path)], Tail(path))

\* the objects of the dictionary value d, the outermost one at <<name>>
Objects(name, d) ==
    [a \in { <<name>> \o path : path \in DictPaths(d) } |->
        LET sub == At(d, Tail(a))
        IN  [k \in Keys(sub) |->
                IF IsDict(sub.dict[k]) THEN [ref |-> a \o <<k>>] ELSE sub.dict[k]]]

RECURSIVE Load(_, _)
\* the dictionary value held by the object at addr
Load(heap, addr) ==
    D([k \in DOMAIN heap[addr] |->
        IF IsRef(heap[addr][k]) THEN Load(heap, heap[addr][k].ref) ELSE heap[addr][k]])

\* merged[key] = cell
SetItem(heap, addr, key, cell) ==
    [heap EXCEPT ![addr] = [k \in DOMAIN heap[addr] \cup {key} |->
                                IF k = key THEN cell ELSE heap[addr][k]]]

\* a slip dict_reducer could have: merged = dict1, the same object
DictCopy_same_object(heap, addr, fresh) == [heap |-> heap, ret |-> addr]

\* merged = dict1.copy(): a new object at address fresh with the cells of the
\* object at addr
DictCopy(heap, addr, fresh) == [heap |-> (fresh :> heap[addr]) @@ heap, ret |-> fresh]

RECURSIVE dict_reducer_objects(_, _, _, _)
RECURSIVE MergeItems(_, _, _, _, _)
\* the loop over dict2.items(), keys being the keys still to visit
MergeItems(heap, merged, dict2, keys, fresh) ==
    IF keys = {} THEN heap
    ELSE LET key == CHOOSE k \in keys : TRUE
             value == heap[dict2][key]
             after ==
                IF /\ key \in DOMAIN heap[merged]
                   /\ IsRef(heap[merged][key])
                   /\ IsRef(value)
                THEN LET sub == dict_reducer_objects(heap, heap[merged][key].ref,
                                                     value.ref, fresh \o <<key>>)
                     IN  SetItem(sub.heap, merged, key, [ref |-> sub.ret])
                ELSE SetItem(heap, merged, key, value)
         IN  MergeItems(after, merged, dict2, keys \ {key}, fresh)

\* dict_reducer(dict1, dict2) on the objects at these addresses; the objects
\* it creates get addresses under fresh
dict_reducer_objects(heap, dict1, dict2, fresh) ==
    LET copied == DictCopy(heap, dict1, fresh)
    IN  [heap |-> MergeItems(copied.heap, copied.ret, dict2, DOMAIN heap[dict2], fresh),
         ret |-> copied.ret]

\* dictionaries nested up to three deep
InnerDicts == DictsOver({"p"}, Scalars)

MiddleDicts == DictsOver({"x"}, Scalars \cup InnerDicts)

ObjectValues == Scalars \cup MiddleDicts

ObjectsLeft == DictsOver({"a", "b"}, ObjectValues)

ObjectsRight == DictsOver({"a", "c"}, ObjectValues)

InitObjects ==
    /\ f_pc = "call"
    /\ \E d1 \in ObjectsLeft, d2 \in ObjectsRight :
        /\ f_args = [fn |-> "dict_reducer on objects", dict1 |-> d1, dict2 |-> d2]
        /\ f_self = Objects("dict1", d1) @@ Objects("dict2", d2)
    /\ f_ret = <<>>
    /\ f_calls = <<>>
    /\ CoordIdle
    /\ ExecIdle
    /\ WfIdle

ObjectsCall ==
    /\ f_pc = "call"
    /\ f_args.fn = "dict_reducer on objects"
    /\ LET done == dict_reducer_objects(f_self, <<"dict1">>, <<"dict2">>, <<"merged">>)
       IN  /\ f_self' = done.heap
           /\ f_ret' = done.ret
    /\ f_pc' = "returned"
    /\ UNCHANGED <<f_args, f_calls, coordVars, execVars, wfVars>>

NextObjects == ObjectsCall

SpecObjects == InitObjects /\ [][NextObjects]_vars

ObjectsReturned == f_pc = "returned" /\ f_args.fn = "dict_reducer on objects"

\* the objects of both arguments as they were when the call was made
ArgumentObjects == Objects("dict1", f_args.dict1) @@ Objects("dict2", f_args.dict2)

\* the object the call returned holds the merge of the two values
ObjectsMergeAgrees ==
    ObjectsReturned => Load(f_self, f_ret) = dict_reducer(f_args.dict1, f_args.dict2)

\* C30: dict_reducer leaves both arguments unchanged at every depth: when
\* the call has returned, every dictionary object reachable from dict1 or
\* from dict2 holds the keys and values it held before the call, and the
\* result is a different object from both.
C30_ArgumentsUnchanged ==
    ObjectsReturned =>
        /\ \A a \in DOMAIN ArgumentObjects : f_self[a] = ArgumentObjects[a]
        /\ Load(f_self, <<"dict1">>) = f_args.dict1
        /\ Load(f_self, <<"dict2">>) = f_args.dict2
        /\ f_ret \notin DOMAIN ArgumentObjects

\* both arguments hold a dictionary in a dictionary under the shared key a,
\* with different contents, and the call has merged them three deep
C30_Witness ==
    /\ ObjectsReturned
    /\ <<"dict1", "a", "x">> \in DOMAIN ArgumentObjects
    /\ <<"dict2", "a", "x">> \in DOMAIN ArgumentObjects
    /\ f_args.dict1.dict["a"] # f_args.dict2.dict["a"]
    /\ "p" \in Keys(f_args.dict2.dict["a"].dict["x"])
    /\ <<"merged", "a", "x">> \in DOMAIN f_self
    /\ Load(f_self, f_ret) # f_args.dict1
    /\ Load(f_self, f_ret) # f_args.dict2

\* ------------------------------------------------------------------------
\* Failures in the workflow (checked under Spec)
\* ------------------------------------------------------------------------

\* C14: no failure terminates the overall request: whatever oracle calls
\* fail at the nodes of the top-level workflow, the run never ends with an
\* error and no result.
C14_NoFailureTerminatesRequest == w_status # "error"

\* ------------------------------------------------------------------------
\* A specialist called on its own (PlannerAgent and NoteWriterAgent of
\* src/ATLAS/agents, AdvisorAgent of app.py): __call__ runs the stages of the
\* agent's pipeline in order inside one try block
\* ------------------------------------------------------------------------

\* number of different texts the oracle gives
MaxTexts == 2

Digits == <<"1","2","3","4","5","6","7","8","9">>

OracleTexts == { <<"t","e","x","t">> \o <<Digits[i]>> : i \in 1..MaxTexts }

\* str(e) of the exceptions an oracle call raises
E_Timeout == <<"R","e","q","u","e","s","t"," ","t","i","m","e","d"," ","o","u","t",".">>

E_Unauthorized == <<"4","0","1"," ","U","n","a","u","t","h","o","r","i","z","e","d">>

E_RateLimit == <<"4","2","9"," ","T","o","o"," ","M","a","n","y"," ","R","e","q","u","e","s","t","s">>

OracleErrors == {E_Timeout, E_Unauthorized, E_RateLimit}

\* str(e) of the KeyError a stage raises on a state that lacks what it reads
E_KeyProfile == <<"'","p","r","o","f","i","l","e","'">>

E_KeyProfileAnalysis == <<"'","p","r","o","f","i","l","e","_","a","n","a","l","y","s","i","s","'">>

S_ErrorPlanPrefix == <<"E","r","r","o","r"," ","g","e","n","e","r","a","t","i","n","g"," ","p","l","a","n",":"," ">>

S_ErrorNotesPrefix == <<"E","r","r","o","r"," ","g","e","n","e","r","a","t","i","n","g"," ","n","o","t","e","s",":"," ">>

S_TryAgainSuffix == <<"."," ","P","l","e","a","s","e"," ","t","r","y"," ","a","g","a","i","n",".">>

Specialists == {PLANNER, NOTEWRITER, ADVISOR}

\* the stages workflow.ainvoke runs, in order
Pipeline(agent) ==
    CASE agent = PLANNER -> <<"calendar_analyzer", "task_analyzer", "plan_generator">>
      [] agent = NOTEWRITER -> <<"notewriter_analyze", "notewriter_generate">>
      [] agent = ADVISOR -> <<"advisor_analyze", "advisor_generate">>

\* the stage that indexes a part of the state the caller may have left out,
\* and the KeyError it then raises
NeedsProfile(stage) == stage \in {"plan_generator", "notewriter_analyze", "advisor_analyze"}

KeyErrorOf(stage) == IF stage = "plan_generator" THEN E_KeyProfileAnalysis ELSE E_KeyProfile

\* the except branch of __call__, given str(e)
AgentCallError(agent, e) ==
    CASE agent = PLANNER ->
            D([k \in {"notes"} |-> L(S_ErrorPlanPrefix \o e \o S_TryAgainSuffix)])
      [] agent = NOTEWRITER ->
            D([k \in {"notes"} |-> L(S_ErrorNotesPrefix \o e \o S_TryAgainSuffix)])
      [] agent = ADVISOR ->
            D([k \in {"advisor_output"} |->
                D([g \in {"guidance"} |-> L(S_ErrorGuidance)])])

\* the return of __call__ after the pipeline ran through, given the text of
\* its last stage
AgentCallResult(agent, text) ==
    CASE agent = PLANNER ->
            D([k \in {"notes"} |-> L(text)])
      [] agent = NOTEWRITER ->
            D([k \in {"notes"} |-> D([n \in {"notes"} |-> L(text)])])
      [] agent = ADVISOR ->
            D([k \in {"advisor_output"} |->
                D([g \in {"guidance", "metadata"} |->
                    IF g = "guidance"
                    THEN D([a \in {"advice"} |-> L(text)])
                    ELSE D([m \in {"course_specific", "considers_learning_style"} |-> L(TRUE)])])])

InitAgent ==
    /\ f_pc = "call"
    /\ f_args \in { [fn |-> "__call__", agent |-> a, complete |-> c] :
                        a \in Specialists, c \in BOOLEAN }
    /\ f_ret = <<>>
    /\ f_calls = <<>>
    /\ f_self = <<>>
    /\ CoordIdle
    /\ ExecIdle
    /\ WfIdle

AgentRunning == f_pc = "call" /\ f_args.fn = "__call__"

\* the stage the pipeline is at
NextStage == Pipeline(f_args.agent)[Len(f_calls) + 1]

\* the next stage runs and its oracle call returns
StageReturns ==
    /\ AgentRunning
    /\ Len(f_calls) < Len(Pipeline(f_args.agent))
    /\ NeedsProfile(NextStage) => f_args.complete
    /\ \E text \in OracleTexts :
        f_calls' = Append(f_calls, [stage |-> NextStage, raised |-> FALSE, text |-> text])
    /\ UNCHANGED <<f_pc, f_args, f_ret, f_self, coordVars, execVars, wfVars>>

\* the next stage raises, on its own or in its oracle call: the except
\* branch of __call__ returns
StageRaises ==
    /\ AgentRunning
    /\ Len(f_calls) < Len(Pipeline(f_args.agent))
    /\ \E e \in (IF NeedsProfile(NextStage) /\ ~f_args.complete
                 THEN {KeyErrorOf(NextStage)} ELSE OracleErrors) :
        /\ f_calls' = Append(f_calls, [stage |-> NextStage, raised |-> TRUE, text |-> e])
        /\ f_ret' = AgentCallError(f_args.agent, e)
    /\ f_pc' = "returned"
    /\ UNCHANGED <<f_args, f_self, coordVars, execVars, wfVars>>

\* the pipeline ran through: __call__ returns its result
PipelineReturns ==
    /\ AgentRunning
    /\ Len(f_calls) = Len(Pipeline(f_args.agent))
    /\ f_ret' = AgentCallResult(f_args.agent, f_calls[Len(f_calls)].text)
    /\ f_pc' = "returned"
    /\ UNCHANGED <<f_args, f_calls, f_self, coordVars, execVars, wfVars>>

NextAgent ==
    \/ StageReturns
    \/ StageRaises
    \/ PipelineReturns

SpecAgent == InitAgent /\ [][NextAgent]_vars

\* the call returned after a stage of the pipeline raised
AgentCallFailed ==
    /\ f_pc = "returned"
    /\ f_args.fn = "__call__"
    /\ f_calls[Len(f_calls)].raised

AllErrors == OracleErrors \cup {E_KeyProfile, E_KeyProfileAnalysis}

\* C15: a specialist's call never raises; if a stage of its pipeline raises,
\* the call returns an error string under notes or advisor_output.guidance
\* that is the same whatever the exception was.
C15_FixedErrorString ==
    /\ f_pc # "raised"
    /\ AgentCallFailed =>
        \A e \in AllErrors : f_ret = AgentCallError(f_args.agent, e)

\* ------------------------------------------------------------------------
\* One concurrency group of execute: the agents' pipelines side by side
\* ------------------------------------------------------------------------
\* Every agent call hands the state it was given to its own compiled
\* sub-graph (workflow.ainvoke), which keeps the state of that run; the stage
\* nodes return updates, which the sub-graph merges into the state of its run.

\* the update a stage node returns
StageResult(node) ==
    CASE node = "calendar_analyzer" -> StageUpdate(node, "calendar_analysis", "analysis")
      [] node = "task_analyzer" -> StageUpdate(node, "task_analysis", "analysis")
      [] node = "plan_generator" -> StageUpdate(node, "final_plan", "plan")
      [] node = "notewriter_analyze" -> StageUpdate(node, "learning_analysis", "analysis")
      [] node = "notewriter_generate" -> StageUpdate(node, "generated_notes", "notes")
      [] node = "advisor_analyze" -> StageUpdate(node, "situation_analysis", "analysis")
      [] node = "advisor_generate" -> StageUpdate(node, "guidance", "advice")

\* the results keys a stage node indexes
StageReads(node) ==
    IF node = "plan_generator"
    THEN {"profile_analysis", "calendar_analysis", "task_analysis"}
    ELSE {}

\* a slip the stage nodes could have: the result stored into the state object
\* the node was given, which is then returned
RunStage_in_place(view, shared, node) ==
    [view |-> ApplyUpdate(shared, StageResult(node)),
     shared |-> ApplyUpdate(shared, StageResult(node))]

\* a stage node runs in the sub-graph whose state is view, while shared is the
\* state object execute was called on: the node returns an update and the
\* sub-graph merges it into the state of its own run
RunStage(view, shared, node) ==
    [view |-> ApplyUpdate(view, StageResult(node)),
     shared |-> shared]

\* the states execute is called on: before and after profile_analyzer, and
\* with what a stage of an earlier pass left in results
GroupStates ==
    { StateWith(<<Query>>, EmptyDict),
      StateWith(<<Query>>,
        StageUpdate("profile_analyzer", "profile_analysis", "analysis").dict["results"]),
      StateWith(<<Query>>,
        dict_reducer(StageUpdate("profile_analyzer", "profile_analysis", "analysis").dict["results"],
                     StageResult("notewriter_analyze").dict["results"])) }

\* the tasks list of a group: one call per listed agent, repetitions included
GroupTasks == UNION { [1..k -> Specialists] : k \in 1..MaxGroupSize }

InitGroup ==
    /\ f_pc = "call"
    /\ \E state \in GroupStates, tasks \in GroupTasks :
        /\ f_args = [fn |-> "gather", state |-> state, tasks |-> tasks]
        /\ f_self = state
        /\ f_calls = [i \in 1..Len(tasks) |->
                        [agent |-> tasks[i], stage |-> 0, view |-> state, status |-> "pending"]]
    /\ f_ret = <<>>
    /\ CoordIdle
    /\ ExecIdle
    /\ WfIdle

\* execution i of the group is still inside its pipeline
GroupTaskRunning(i) ==
    /\ f_pc = "call"
    /\ f_args.fn = "gather"
    /\ f_calls[i].status = "pending"

\* the stage execution i is at
GroupStage(i) == Pipeline(f_calls[i].agent)[f_calls[i].stage + 1]

\* the next stage of one execution runs and its oracle call returns
GroupStageReturns ==
    \E i \in 1..Len(f_calls) :
        /\ GroupTaskRunning(i)
        /\ f_calls[i].stage < Len(Pipeline(f_calls[i].agent))
        /\ StageReads(GroupStage(i)) \subseteq Keys(f_calls[i].view.dict["results"])
        /\ LET ran == RunStage(f_calls[i].view, f_self, GroupStage(i))
           IN  /\ f_calls' = [f_calls EXCEPT ![i].view = ran.view,
                                             ![i].stage = f_calls[i].stage + 1]
               /\ f_self' = ran.shared
        /\ UNCHANGED <<f_pc, f_args, f_ret, coordVars, execVars, wfVars>>

\* the next stage of one execution raises, on a missing key or in its oracle
\* call: the except branch of the agent's __call__ returns its error output
GroupStageRaises ==
    \E i \in 1..Len(f_calls) :
        /\ GroupTaskRunning(i)
        /\ f_calls[i].stage < Len(Pipeline(f_calls[i].agent))
        /\ f_calls' = [f_calls EXCEPT ![i].status = "failed"]
        /\ UNCHANGED <<f_pc, f_args, f_ret, f_self, coordVars, execVars, wfVars>>

\* the pipeline of one execution ran through: its __call__ returns
GroupPipelineReturns ==
    \E i \in 1..Len(f_calls) :
        /\ GroupTaskRunning(i)
        /\ f_calls[i].stage = Len(Pipeline(f_calls[i].agent))
        /\ f_calls' = [f_calls EXCEPT ![i].status = "returned"]
        /\ UNCHANGED <<f_pc, f_args, f_ret, f_self, coordVars, execVars, wfVars>>

\* the join: gather returns the results in task order
GroupJoin ==
    /\ f_pc = "call"
    /\ f_args.fn = "gather"
    /\ \A i \in 1..Len(f_calls) : f_calls[i].status # "pending"
    /\ f_ret' = [i \in 1..Len(f_calls) |->
                    IF f_calls[i].status = "returned"
                    THEN AgentOutput(f_calls[i].agent)
                    ELSE AgentErrorOutput(f_calls[i].agent)]
    /\ f_pc' = "returned"
    /\ UNCHANGED <<f_args, f_calls, f_self, coordVars, execVars, wfVars>>

NextGroup ==
    \/ GroupStageReturns
    \/ GroupStageRaises
    \/ GroupPipelineReturns
    \/ GroupJoin

SpecGroup == InitGroup /\ [][NextGroup]_vars

RECURSIVE OwnView(_, _, _)
\* the state execute was called on with the updates of the first n stages of
\* agent's own pipeline merged in, and nothing else
OwnView(state, agent, n) ==
    IF n = 0 THEN state
    ELSE ApplyUpdate(OwnView(state, agent, n - 1), StageResult(Pipeline(agent)[n]))

\* C25: the agents of one concurrency group are isolated under every
\* interleaving: each pipeline runs on its own view of the state passed to
\* execute, which holds that state and the results of its own stages only,
\* so no agent sees a key written by a sibling before the join; and the state
\* passed to execute is not modified by any of them.
C25_GroupIsolation ==
    f_args.fn = "gather" =>
        /\ f_self = f_args.state
        /\ \A i \in 1..Len(f_calls) :
            f_calls[i].view = OwnView(f_args.state, f_calls[i].agent, f_calls[i].stage)

\* the Planner and the NoteWriter of one group are both part-way through
\* their pipelines, on a state that held neither's keys
C25_Witness ==
    /\ f_pc = "call"
    /\ f_args.fn = "gather"
    /\ Keys(f_args.state.dict["results"]) = {"profile_analysis"}
    /\ Len(f_calls) = 2
    /\ f_calls[1].agent = PLANNER /\ f_calls[1].stage = 2 /\ f_calls[1].status = "pending"
    /\ f_calls[2].agent = NOTEWRITER /\ f_calls[2].stage = 1 /\ f_calls[2].status = "pending"

\* ------------------------------------------------------------------------
\* process_query of ATLAS and WebATLAS: one modular agent on a fresh state
\* ------------------------------------------------------------------------
S_NotInitialized == <<"S","y","s","t","e","m"," ","n","o","t"," ","i","n","i","t","i","a","l","i","z","e","d","."," ","P","l","e","a","s","e"," ","r","e","f","r","e","s","h"," ","t","h","e"," ","p","a","g","e",".">>

S_NoProfileWeb == <<"E","r","r","o","r",":"," ","C","o","u","l","d"," ","n","o","t"," ","l","o","a","d"," ","s","t","u","d","e","n","t"," ","p","r","o","f","i","l","e",".">>

S_NoProfileMain == <<"E","r","r","o","r",":"," ","C","o","u","l","d"," ","n","o","t"," ","l","o","a","d"," ","s","t","u","d","e","n","t"," ","p","r","o","f","i","l","e","."," ","P","l","e","a","s","e"," ","c","h","e","c","k"," ","y","o","u","r"," ","p","r","o","f","i","l","e",".","j","s","o","n"," ","f","i","l","e",".">>

S_NoPlan == <<"N","o"," ","p","l","a","n"," ","g","e","n","e","r","a","t","e","d">>

S_NoResponse == <<"N","o"," ","r","e","s","p","o","n","s","e"," ","g","e","n","e","r","a","t","e","d">>

E_KeyLearningPreferences == <<"'","l","e","a","r","n","i","n","g","_","p","r","e","f","e","r","e","n","c","e","s","'">>

\* the profile get_student_profile finds
StudentProfile ==
    D([k \in {"id", "name", "learning_preferences"} |->
        IF k = "learning_preferences"
        THEN D([p \in {"learning_style"} |-> L(<<"v","i","s","u","a","l">>)])
        ELSE L(<<k>>)])

\* the state process_query builds around the profile it found
QueryState(profile) ==
    D([k \in {"messages", "profile", "results"} |->
        CASE k = "messages" -> L(<<Query>>)
          [] k = "profile" -> D([p \in {"profiles"} |-> L(<<profile>>)])
          [] k = "results" ->
                D([r \in {"profile_analysis"} |->
                    D([a \in {"analysis"} |-> L(GenText("process_query"))])])])

\* the agent process_query hands the state to: ATLAS always the Planner,
\* WebATLAS by agent_type
QueryAgent(app, agent_type) ==
    IF app = "WebATLAS" /\ agent_type = "notewriter" THEN NOTEWRITER ELSE PLANNER

AgentTypes == {"planner", "notewriter", "advisor"}

\* the key a stage of a modular agent indexes and the state lacks, or None
\* if the stage can read all it indexes
MissingKey(stage, state) ==
    CASE stage = "plan_generator" ->
            IF "profile_analysis" \notin Keys(state.dict["results"]) THEN E_KeyProfileAnalysis
            ELSE IF "calendar_analysis" \notin Keys(state.dict["results"])
                 THEN <<"'","c","a","l","e","n","d","a","r","_","a","n","a","l","y","s","i","s","'">>
            ELSE IF "task_analysis" \notin Keys(state.dict["results"])
                 THEN <<"'","t","a","s","k","_","a","n","a","l","y","s","i","s","'">>
            ELSE None
      [] stage \in {"notewriter_analyze", "notewriter_generate"} ->
            IF "profile" \notin Keys(state) THEN E_KeyProfile
            ELSE IF "learning_preferences" \notin Keys(state.dict["profile"])
                 THEN E_KeyLearningPreferences
            ELSE None
      [] OTHER -> None

\* the update a stage returns when its oracle call returned text
StageTextUpdate(stage, text) ==
    LET fixed == StageResult(stage).dict["results"]
        key == CHOOSE k \in Keys(fixed) : TRUE
        field == CHOOSE f \in Keys(fixed.dict[key]) : TRUE
    IN  ResultsUpdate(key, D([f \in {field} |-> L(text)]))

\* what __call__ of a modular agent returns once its sub-graph ran through
ModularCallResult(agent, final_state) ==
    IF agent = PLANNER
    THEN D([k \in {"notes"} |->
            Get(Get(final_state.dict["results"], "final_plan", EmptyDict),
                "plan", L(S_NoPlan))])
    ELSE D([k \in {"notes"} |-> Get(final_state.dict["results"], "generated_notes", L(None))])

InitQuery ==
    /\ f_pc = "call"
    /\ f_args \in { [fn |-> "process_query", app |-> app, agent_type |-> t,
                     initialized |-> i, profile |-> p] :
                        app \in {"ATLAS", "WebATLAS"}, t \in AgentTypes,
                        i \in BOOLEAN, p \in {L(None), StudentProfile} }
    /\ f_args.app = "ATLAS" => (f_args.agent_type = "planner" /\ f_args.initialized)
    /\ f_self = QueryState(f_args.profile)
    /\ f_calls = <<>>
    /\ f_ret = <<>>
    /\ CoordIdle
    /\ ExecIdle
    /\ WfIdle

QueryRunning == f_pc = "call" /\ f_args.fn = "process_query"

\* the early returns of process_query
QueryRefusal ==
    IF ~f_args.initialized THEN L(S_NotInitialized)
    ELSE IF f_args.profile = L(None)
         THEN L(IF f_args.app = "WebATLAS" THEN S_NoProfileWeb ELSE S_NoProfileMain)
    ELSE L(None)

QueryPipeline == Pipeline(QueryAgent(f_args.app, f_args.agent_type))

\* process_query returns before any agent is called
QueryRefused ==
    /\ QueryRunning
    /\ QueryRefusal # L(None)
    /\ f_ret' = QueryRefusal
    /\ f_pc' = "returned"
    /\ UNCHANGED <<f_args, f_calls, f_self, coordVars, execVars, wfVars>>

\* the next stage of the agent's sub-graph runs and its oracle call returns
QueryStageReturns ==
    /\ QueryRunning
    /\ QueryRefusal = L(None)
    /\ Len(f_calls) < Len(QueryPipeline)
    /\ LET stage == QueryPipeline[Len(f_calls) + 1]
       IN  /\ MissingKey(stage, f_self) = None
           /\ \E text \in OracleTexts :
                /\ f_self' = ApplyUpdate(f_self, StageTextUpdate(stage, text))
                /\ f_calls' = Append(f_calls, [stage |-> stage, raised |-> FALSE, text |-> text])
    /\ UNCHANGED <<f_pc, f_args, f_ret, coordVars, execVars, wfVars>>

\* the next stage raises, on a key the state lacks or in its oracle call: the
\* except branch of __call__ returns its error string, which process_query
\* returns as the notes
QueryStageRaises ==
    /\ QueryRunning
    /\ QueryRefusal = L(None)
    /\ Len(f_calls) < Len(QueryPipeline)
    /\ LET stage == QueryPipeline[Len(f_calls) + 1]
           agent == QueryAgent(f_args.app, f_args.agent_type)
       IN  \E e \in (IF MissingKey(stage, f_self) # None
                     THEN {MissingKey(stage, f_self)} ELSE OracleErrors) :
                /\ f_calls' = Append(f_calls, [stage |-> stage, raised |-> TRUE, text |-> e])
                /\ f_ret' = Get(AgentCallError(agent, e), "notes", L(S_NoResponse))
    /\ f_pc' = "returned"
    /\ UNCHANGED <<f_args, f_self, coordVars, execVars, wfVars>>

\* the sub-graph ran through: __call__ returns and process_query returns
\* result.get("notes", ...)
QueryPipelineReturns ==
    /\ QueryRunning
    /\ QueryRefusal = L(None)
    /\ Len(f_calls) = Len(QueryPipeline)
    /\ f_ret' = Get(ModularCallResult(QueryAgent(f_args.app, f_args.agent_type), f_self),
                    "notes", L(S_NoResponse))
    /\ f_pc' = "returned"
    /\ UNCHANGED <<f_args, f_calls, f_self, coordVars, execVars, wfVars>>

NextQuery ==
    \/ QueryRefused
    \/ QueryStageReturns
    \/ QueryStageRaises
    \/ QueryPipelineReturns

SpecQuery == InitQuery /\ [][NextQuery]_vars


\* no oracle call of the query raised
QueryOracleCallsSucceeded ==
    \A i \in 1..Len(f_calls) : f_calls[i].raised => f_calls[i].text \notin OracleErrors

\* process_query of WebATLAS returned after it built the state and called
\* an agent
WebQueryAnswered ==
    /\ f_pc = "returned"
    /\ f_args.fn = "process_query"
    /\ f_args.app = "WebATLAS"
    /\ QueryRefusal = L(None)

\* the last text the oracle returned to the query's agent
LastStageText == f_calls[Len(f_calls)].text

\* C29: WebATLAS.process_query(query, "notewriter") returns the notes
\* produced by generate_notes and not an error string, and with any other
\* agent_type it returns the Planner's final plan text, when no oracle call
\* raised.
C29_QueryReturnsAgentText ==
    (WebQueryAnswered /\ QueryOracleCallsSucceeded) =>
        /\ Len(f_calls) = Len(QueryPipeline)
        /\ ~f_calls[Len(f_calls)].raised
        /\ IF f_args.agent_type = "notewriter"
           THEN /\ f_calls[Len(f_calls)].stage = "notewriter_generate"
                /\ f_ret \in {L(LastStageText), D([n \in {"notes"} |-> L(LastStageText)])}
           ELSE /\ f_calls[Len(f_calls)].stage = "plan_generator"
                /\ f_ret = L(LastStageText)

\* the sub-graph of a query's Planner reaches plan_generator only on a state
\* that holds the three analyses it indexes
PlanGeneratorReadsInQuery ==
    (QueryRunning /\ QueryRefusal = L(None) /\ Len(f_calls) < Len(QueryPipeline)
        /\ QueryPipeline[Len(f_calls) + 1] = "plan_generator") =>
            MissingKey("plan_generator", f_self) = None

\* ------------------------------------------------------------------------
\* What plan_generator reads (checked under Spec)
\* ------------------------------------------------------------------------
\* the Planner is being executed inside execute, in a group or as the fallback
PlannerRunsInExecute ==
    \/ e_pc = "gather" /\ \E i \in 1..Len(e_tasks) : e_tasks[i].agent = PLANNER
    \/ e_pc = "fallback"

MaxDay == 1

\* longest events list and longest task list
MaxEvents == 2

\* ticks in a day
DayTicks == 2

\* datetime.now(timezone.utc) at the time of the call
Now == 2

\* offsets of the host's local zone: UTC-12, UTC, UTC+12
HostOffsets == {-1, 0, 1}

Walls == 0..(DayTicks * MaxDay + DayTicks - 1)

Ts(kind, wall, off) == [kind |-> kind, wall |-> wall, off |-> off]

BadTs == Ts("bad", 0, 0)

NullTs == Ts("null", 0, 0)

\* the dt_str values: naive, with a trailing Z, with an explicit offset,
\* malformed, and null
Timestamps ==
    { Ts("naive", w, 0) : w \in Walls } \cup
    { Ts("Z", w, 0) : w \in Walls } \cup
    { Ts("offset", w, 1) : w \in Walls } \cup
    {BadTs, NullTs}

\* a field of a record of the data files: a number written as text, text
\* that is not a number, or null
Field(kind, v) == [kind |-> kind, v |-> v]

DateFields == { Field("ok", d) : d \in 0..MaxDay } \cup {Field("bad", 0)}

TimeFields == { Field("ok", h) : h \in 0..(DayTicks - 1) } \cup {Field("bad", 0), Field("null", 0)}

\* outcomes of a step: a value, an exception, or nothing
Ok(v) == [ok |-> v]

Raise(e) == [raise |-> e]

Skip == [skip |-> TRUE]

IsOk(r) == DOMAIN r = {"ok"}

IsRaise(r) == DOMAIN r = {"raise"}

\* f"{date}T{time_part}:00": a naive timestamp, malformed if a part is
Format(date, time_part) ==
    IF date.kind = "ok" /\ time_part.kind = "ok"
    THEN Ts("naive", DayTicks * date.v + time_part.v, 0)
    ELSE BadTs

\* parse_datetime: null has no replace(); malformed text fails in
\* fromisoformat, in the try block and again in the except block; a Z is
\* rewritten to +00:00; astimezone(utc) converts an aware datetime by its
\* offset and takes a naive one as local time of the host
parse_datetime(dt_str, host) ==
    CASE dt_str.kind = "null" -> Raise("AttributeError")
      [] dt_str.kind = "bad" -> Raise("ValueError")
      [] dt_str.kind = "Z" -> Ok(dt_str.wall)
      [] dt_str.kind = "offset" -> Ok(dt_str.wall - dt_str.off)
      [] dt_str.kind = "naive" -> Ok(dt_str.wall - host)

\* the exceptions the loops of get_upcoming_events and get_active_tasks catch
Caught == {"KeyError", "ValueError"}

\* calendar events: date + time, start.dateTime, start without dateTime, and
\* a record of neither shape
DateTimeEvent(date, time) ==
    D([k \in {"date", "time"} |-> IF k = "date" THEN L(date) ELSE L(time)])

StartEvent(ts) == D([k \in {"start"} |-> D([j \in {"dateTime"} |-> L(ts)])])

StartOnlyEvent == D([k \in {"start"} |-> EmptyDict])

TitleEvent == D([k \in {"title"} |-> L(0)])

Events ==
    { DateTimeEvent(d, t) : d \in DateFields, t \in TimeFields } \cup
    { StartEvent(ts) : ts \in Timestamps } \cup
    {StartOnlyEvent, TitleEvent}

\* the body of the try block for one event, up to start_time
EventStart(event, host) ==
    IF {"date", "time"} \subseteq Keys(event)
    THEN IF event.dict["time"].leaf.kind = "null"
         THEN Raise("AttributeError")
         ELSE parse_datetime(Format(event.dict["date"].leaf, event.dict["time"].leaf), host)
    ELSE IF "start" \in Keys(event) /\ "dateTime" \in Keys(event.dict["start"])
    THEN parse_datetime(event.dict["start"].dict["dateTime"].leaf, host)
    ELSE Skip

RECURSIVE UpcomingFrom(_, _, _, _, _)
\* the for loop of get_upcoming_events from event i on
UpcomingFrom(events, future, host, i, acc) ==
    IF i > Len(events) THEN Ok(acc)
    ELSE LET start_time == EventStart(events[i], host)
         IN  IF IsRaise(start_time) /\ start_time.raise \notin Caught
             THEN start_time
             ELSE IF IsOk(start_time) /\ Now <= start_time.ok /\ start_time.ok <= future
             THEN UpcomingFrom(events, future, host, i + 1, Append(acc, events[i]))
             ELSE UpcomingFrom(events, future, host, i + 1, acc)

get_upcoming_events(calendar_data, days, host) ==
    IF Keys(calendar_data) = {} THEN Ok(<<>>)
    ELSE UpcomingFrom(Get(calendar_data, "events", L(<<>>)).leaf,
                      Now + days * DayTicks, host, 1, <<>>)

\* tasks: due_date + due_time, or due, or neither, with or without a status
Statuses == {"in_progress", "not_started", "needsAction", "completed"}

DueFields == { Field("ok", h) : h \in 0..(DayTicks - 1) } \cup {Field("bad", 0)}

DateTimeTask(status, date, time) ==
    D([k \in {"status", "due_date", "due_time"} |->
        IF k = "status" THEN L(status) ELSE IF k = "due_date" THEN L(date) ELSE L(time)])

DueTask(status, ts) == D([k \in {"status", "due"} |-> IF k = "status" THEN L(status) ELSE L(ts)])

NoStatusTask(ts) == D([k \in {"due"} |-> L(ts)])

StatusOnlyTask == D([k \in {"status"} |-> L("in_progress")])

Tasks ==
    { DateTimeTask("in_progress", d, t) : d \in DateFields, t \in DueFields } \cup
    { DueTask("needsAction", ts) : ts \in Timestamps } \cup
    { DueTask(st, Ts("Z", Now + 1, 0)) : st \in Statuses } \cup
    { DueTask(st, Ts("naive", Now + 1, 0)) : st \in Statuses } \cup
    {NoStatusTask(Ts("Z", Now + 1, 0)), StatusOnlyTask}

\* the body of the try block for one task, up to due_date
TaskDue(task, host) ==
    IF {"due_date", "due_time"} \subseteq Keys(task)
    THEN parse_datetime(Format(task.dict["due_date"].leaf, task.dict["due_time"].leaf), host)
    ELSE IF "due" \in Keys(task)
    THEN parse_datetime(task.dict["due"].leaf, host)
    ELSE Skip

\* task.get("status") in ["in_progress", "not_started", "needsAction"]
ActiveStatus(task) ==
    "status" \in Keys(task) /\
    task.dict["status"].leaf \in {"in_progress", "not_started", "needsAction"}

RECURSIVE ActiveFrom(_, _, _, _)
\* the for loop of get_active_tasks from task i on
ActiveFrom(tasks, host, i, acc) ==
    IF i > Len(tasks) THEN Ok(acc)
    ELSE LET due_date == TaskDue(tasks[i], host)
         IN  IF IsRaise(due_date) /\ due_date.raise \notin Caught
             THEN due_date
             ELSE IF IsOk(due_date) /\ ActiveStatus(tasks[i]) /\ due_date.ok > Now
             THEN ActiveFrom(tasks, host, i + 1,
                             Append(acc, Put(tasks[i], "due_datetime", L(due_date.ok))))
             ELSE ActiveFrom(tasks, host, i + 1, acc)

get_active_tasks(task_data, host) ==
    IF Keys(task_data) = {} THEN Ok(<<>>)
    ELSE LET assignments == Get(task_data, "assignments", L(<<>>)).leaf
             tasks == IF Len(assignments) = 0
                      THEN Get(task_data, "tasks", L(<<>>)).leaf
                      ELSE assignments
         IN  ActiveFrom(tasks, host, 1, <<>>)

\* the days arguments of get_upcoming_events
DaysArgs == {0, 1}

\* one call of parse_datetime, get_upcoming_events or get_active_tasks, on a
\* host in any of the zones
DataInput(args) ==
    \/ \E ts \in Timestamps \ {NullTs}, h \in HostOffsets :
        args = [fn |-> "parse_datetime", dt_str |-> ts, host |-> h]
    \/ \E k \in 0..MaxEvents, d \in DaysArgs, h \in HostOffsets :
        \E evs \in [1..k -> Events] :
            args = [fn |-> "get_upcoming_events",
                    calendar_data |-> D([c \in {"events"} |-> L(evs)]),
                    days |-> d, host |-> h]
    \/ \E d \in DaysArgs, h \in HostOffsets :
        args = [fn |-> "get_upcoming_events", calendar_data |-> EmptyDict,
                days |-> d, host |-> h]
    \/ \E k \in 0..MaxEvents, key \in {"assignments", "tasks"}, h \in HostOffsets :
        \E ts \in [1..k -> Tasks] :
            args = [fn |-> "get_active_tasks",
                    task_data |-> D([c \in {key} |-> L(ts)]), host |-> h]
    \/ \E h \in HostOffsets :
        args = [fn |-> "get_active_tasks", task_data |-> EmptyDict, host |-> h]

InitData ==
    /\ f_pc = "call"
    /\ DataInput(f_args)
    /\ f_ret = <<>>
    /\ f_calls = <<>>
    /\ f_self = <<>>
    /\ CoordIdle
    /\ ExecIdle
    /\ WfIdle

\* the call ends with outcome r: a returned value or a propagated exception
DataCallEnds(r) ==
    /\ f_pc' = IF IsRaise(r) THEN "raised" ELSE "returned"
    /\ f_ret' = IF IsRaise(r) THEN r.raise ELSE r.ok
    /\ UNCHANGED <<f_args, f_calls, f_self, coordVars, execVars, wfVars>>

ParseDatetimeCall ==
    /\ f_pc = "call"
    /\ f_args.fn = "parse_datetime"
    /\ DataCallEnds(parse_datetime(f_args.dt_str, f_args.host))

GetUpcomingEventsCall ==
    /\ f_pc = "call"
    /\ f_args.fn = "get_upcoming_events"
    /\ DataCallEnds(get_upcoming_events(f_args.calendar_data, f_args.days, f_args.host))

GetActiveTasksCall ==
    /\ f_pc = "call"
    /\ f_args.fn = "get_active_tasks"
    /\ DataCallEnds(get_active_tasks(f_args.task_data, f_args.host))

NextData ==
    \/ ParseDatetimeCall
    \/ GetUpcomingEventsCall
    \/ GetActiveTasksCall

SpecData == InitData /\ [][NextData]_vars

\* ------------------------------------------------------------------------
\* Properties of DataManager (checked under SpecData)
\* ------------------------------------------------------------------------

DataCallOver(fn) == f_pc \in {"returned", "raised"} /\ f_args.fn = fn

\* the instant a well-formed timestamp denotes: a naive one is in UTC
InstantOf(ts) == IF ts.kind = "offset" THEN ts.wall - ts.off ELSE ts.wall

WellFormed(ts) == ts.kind \in {"naive", "Z", "offset"}

\* the event is of a supported shape and its time fields can be parsed
EventHasStart(event) ==
    IF {"date", "time"} \subseteq Keys(event)
    THEN event.dict["date"].leaf.kind = "ok" /\ event.dict["time"].leaf.kind = "ok"
    ELSE /\ "start" \in Keys(event)
         /\ "dateTime" \in Keys(event.dict["start"])
         /\ WellFormed(event.dict["start"].dict["dateTime"].leaf)

EventInstant(event) ==
    IF {"date", "time"} \subseteq Keys(event)
    THEN DayTicks * event.dict["date"].leaf.v + event.dict["time"].leaf.v
    ELSE InstantOf(event.dict["start"].dict["dateTime"].leaf)

\* C16: get_upcoming_events(days) returns exactly the events of a supported
\* shape whose start instant t satisfies now <= t <= now + days, in source
\* order; events outside the window, of neither shape or with unparsable
\* time fields are left out, and the call does not raise.
C16_UpcomingEvents ==
    DataCallOver("get_upcoming_events") =>
        /\ f_pc = "returned"
        /\ f_ret = SelectSeq(Get(f_args.calendar_data, "events", L(<<>>)).leaf,
                     LAMBDA event :
                        /\ EventHasStart(event)
                        /\ Now <= EventInstant(event)
                        /\ EventInstant(event) <= Now + f_args.days * DayTicks)

TaskHasDue(task) ==
    IF {"due_date", "due_time"} \subseteq Keys(task)
    THEN task.dict["due_date"].leaf.kind = "ok" /\ task.dict["due_time"].leaf.kind = "ok"
    ELSE "due" \in Keys(task) /\ WellFormed(task.dict["due"].leaf)

TaskInstant(task) ==
    IF {"due_date", "due_time"} \subseteq Keys(task)
    THEN DayTicks * task.dict["due_date"].leaf.v + task.dict["due_time"].leaf.v
    ELSE InstantOf(task.dict["due"].leaf)

\* the task list get_active_tasks reads
GivenTasks ==
    LET assignments == Get(f_args.task_data, "assignments", L(<<>>)).leaf
    IN  IF Len(assignments) = 0 THEN Get(f_args.task_data, "tasks", L(<<>>)).leaf
        ELSE assignments

\* C17: get_active_tasks returns exactly the tasks whose status is
\* in_progress, not_started or needsAction and whose due instant is strictly
\* later than now, each carrying due_datetime equal to its due instant;
\* malformed tasks are skipped and the call does not raise.
C17_ActiveTasks ==
    DataCallOver("get_active_tasks") =>
        /\ f_pc = "returned"
        /\ LET kept == SelectSeq(GivenTasks,
                          LAMBDA task : /\ TaskHasDue(task)
                                        /\ ActiveStatus(task)
                                        /\ TaskInstant(task) > Now)
           IN  f_ret = [i \in 1..Len(kept) |->
                            Put(kept[i], "due_datetime", L(TaskInstant(kept[i])))]

\* C18: parse_datetime maps a naive timestamp to the instant with the same
\* wall-clock fields in UTC, whatever the host's local zone, and a timestamp
\* with a trailing Z or an explicit offset to the equivalent UTC instant.
C18_ParseDatetimeUTC ==
    (DataCallOver("parse_datetime") /\ WellFormed(f_args.dt_str)) =>
        /\ f_pc = "returned"
        /\ f_ret = InstantOf(f_args.dt_str)

\* ------------------------------------------------------------------------
\* NeMoLLaMa (src/ATLAS/config/llm_config.py): agenerate and check_auth
\*
\* A temperature is kept in tenths: 0..10 stands for 0.0..1.0.
\* ------------------------------------------------------------------------

\* LLMConfig
default_temp == 5

max_tokens == 1024

model == <<"m","i","s","t","r","a","l","a","i","/","m","i","x","t","r","a","l","-","8","x","7","b","-","i","n","s","t","r","u","c","t","-","v","0",".","1">>

\* temperature=None, the default of the parameter
NoTemperature == [none |-> TRUE]

Temperature(tenths) == [tenths |-> tenths]

Temperatures == {NoTemperature} \cup { Temperature(t) : t \in 0..10 }

\* Python's x or y for an optional number x: y if x is None or zero
Or(x, y) == IF x = NoTemperature \/ x = Temperature(0) THEN y ELSE x

S_test == <<"t","e","s","t">>

\* check_auth's test_message
test_message == <<[role |-> "user", content |-> S_test]>>

MessageLists ==
    { <<[role |-> "user", content |-> Query]>>,
      <<[role |-> "system", content |-> S_test], [role |-> "user", content |-> Query]>> }

LLMInput(args) ==
    \/ \E ms \in MessageLists, t \in Temperatures :
        args = [fn |-> "agenerate", messages |-> ms, temperature |-> t]
    \/ args = [fn |-> "check_auth", messages |-> <<>>, temperature |-> NoTemperature]

InitLLM ==
    /\ f_pc = "call"
    /\ LLMInput(f_args)
    /\ f_ret = <<>>
    /\ f_calls = <<>>
    /\ f_self = [_is_authenticated |-> FALSE]
    /\ CoordIdle
    /\ ExecIdle
    /\ WfIdle

\* the arguments agenerate passes to client.chat.completions.create
CreateCall(messages, temperature) ==
    [model |-> model,
     messages |-> messages,
     temperature |-> Or(temperature, Temperature(default_temp)),
     max_tokens |-> max_tokens,
     stream |-> FALSE,
     outcome |-> "pending"]

\* agenerate is called and awaits the client
AgenerateCalled ==
    /\ f_pc = "call"
    /\ f_args.fn = "agenerate"
    /\ f_calls' = Append(f_calls, CreateCall(f_args.messages, f_args.temperature))
    /\ f_pc' = "client"
    /\ UNCHANGED <<f_args, f_ret, f_self, coordVars, execVars, wfVars>>

\* check_auth is called: it awaits agenerate(test_message, temperature=0.1)
CheckAuthCalled ==
    /\ f_pc = "call"
    /\ f_args.fn = "check_auth"
    /\ f_calls' = Append(f_calls, CreateCall(test_message, Temperature(1)))
    /\ f_pc' = "client"
    /\ UNCHANGED <<f_args, f_ret, f_self, coordVars, execVars, wfVars>>

\* the client call returns a completion: agenerate returns its content, and
\* check_auth, if it is the caller, records the success and returns True
ClientReturns ==
    /\ f_pc = "client"
    /\ f_args.fn \in {"agenerate", "check_auth"}
    /\ f_calls' = [f_calls EXCEPT ![Len(f_calls)].outcome = "returned"]
    /\ \E content \in OracleTexts :
        IF f_args.fn = "check_auth"
        THEN /\ f_self' = [f_self EXCEPT !._is_authenticated = TRUE]
             /\ f_ret' = TRUE
        ELSE /\ f_ret' = content
             /\ UNCHANGED f_self
    /\ f_pc' = "returned"
    /\ UNCHANGED <<f_args, coordVars, execVars, wfVars>>

\* a slip check_auth could have: no guard around the generate call
ClientRaises_unguarded ==
    /\ f_pc = "client"
    /\ f_args.fn \in {"agenerate", "check_auth"}
    /\ f_calls' = [f_calls EXCEPT ![Len(f_calls)].outcome = "raised"]
    /\ \E e \in OracleErrors :
        /\ f_ret' = e
        /\ f_pc' = "raised"
    /\ UNCHANGED <<f_args, f_self, coordVars, execVars, wfVars>>

\* the client call raises: agenerate lets the exception through, and
\* check_auth, if it is the caller, catches it and returns False
ClientRaises ==
    /\ f_pc = "client"
    /\ f_args.fn \in {"agenerate", "check_auth"}
    /\ f_calls' = [f_calls EXCEPT ![Len(f_calls)].outcome = "raised"]
    /\ \E e \in OracleErrors :
        IF f_args.fn = "check_auth"
        THEN /\ f_ret' = FALSE
             /\ f_pc' = "returned"
        ELSE /\ f_ret' = e
             /\ f_pc' = "raised"
    /\ UNCHANGED <<f_args, f_self, coordVars, execVars, wfVars>>

NextLLM ==
    \/ AgenerateCalled
    \/ CheckAuthCalled
    \/ ClientReturns
    \/ ClientRaises

SpecLLM == InitLLM /\ [][NextLLM]_vars

\* ------------------------------------------------------------------------
\* Properties of NeMoLLaMa (checked under SpecLLM)
\* ------------------------------------------------------------------------

\* C19: the temperature agenerate forwards to the model call is the
\* configured default (0.5) when the caller omits it and exactly the
\* caller's value whenever a temperature in 0.0..1.0 is given, 0.0 included.
C19_ForwardedTemperature ==
    (f_args.fn = "agenerate" /\ Len(f_calls) > 0) =>
        f_calls[1].temperature =
            IF f_args.temperature = NoTemperature
            THEN Temperature(default_temp)
            ELSE f_args.temperature

\* C20: check_auth issues exactly one generate call, which is not retried,
\* returns True if that call succeeded and False if it raised, and never
\* raises itself.
C20_CheckAuth ==
    f_args.fn = "check_auth" =>
        /\ f_pc # "raised"
        /\ Len(f_calls) <= 1
        /\ f_pc = "returned" =>
            /\ Len(f_calls) = 1
            /\ f_calls[1].messages = test_message
            /\ f_ret = (f_calls[1].outcome = "returned")

\* check_auth returned False after its one generate call raised
C20_Witness ==
    /\ f_args.fn = "check_auth"
    /\ f_pc = "returned"
    /\ Len(f_calls) = 1
    /\ f_calls[1].outcome = "raised"
    /\ f_ret = FALSE

====
